---- MODULE Spec2Model ----
(***************************************************************************)
(* Intraday position and mark-to-market engine of the Daily_jobs pipeline. *)
(*                                                                         *)
(* Two processors replay the trades of one (strategy, date) unit minute by *)
(* minute against the cached market bars:                                  *)
(*   scripts/4_pnl_processor_1min_closing.py  (variant "closing")          *)
(*   scripts/5_pnl_processor_1min_ohlc.py     (variant "ohlc")             *)
(* The model follows the per-unit body of calculate_intraday_pnl_1min_     *)
(* closing: existence check, trade fetch, bar fetch, time validation, the  *)
(* minute loop (trade application, mark-to-market, stop rule), upsert and  *)
(* status update.                                                          *)
(*                                                                         *)
(* Numbers: prices and PnL are Python floats in the source.  They are      *)
(* modelled as exact rationals <<n, d>> (d > 0, lowest terms); round(x, 2) *)
(* is modelled as round-half-even to an integer number of hundredths.      *)
(* Times are seconds since midnight of the trade date.                     *)
(***************************************************************************)
EXTENDS Integers, Sequences, FiniteSets, TLC

(***************************************************************************)
(* Bounds of the model                                                     *)
(***************************************************************************)
\* Longest ledger (trade rows of one unit) drawn by Init.
MaxTrades == 3
\* Largest trade quantity drawn by Init.
MaxQty == 2

(***************************************************************************)
(* Exact rational arithmetic standing for the source's float arithmetic    *)
(***************************************************************************)
Abs(i) == IF i < 0 THEN -i ELSE i

RECURSIVE GCD(_, _)
GCD(a, b) == IF b = 0 THEN a ELSE GCD(b, a % b)

\* The rational n/d in lowest terms with a positive denominator.
Rat(n, d) ==
    LET s == IF d < 0 THEN -1 ELSE 1
        g == GCD(Abs(n), Abs(d))
    IN  <<(s * n) \div g, (s * d) \div g>>

R(i) == <<i, 1>>
RAdd(x, y) == Rat(x[1] * y[2] + y[1] * x[2], x[2] * y[2])
RSub(x, y) == Rat(x[1] * y[2] - y[1] * x[2], x[2] * y[2])
RMul(x, y) == Rat(x[1] * y[1], x[2] * y[2])
RDiv(x, y) == Rat(x[1] * y[2], x[2] * y[1])
RLeq(x, y) == x[1] * y[2] <= y[1] * x[2]

\* round(x, 2): the nearest multiple of 0.01, ties to the even hundredth,
\* returned as the integer number of hundredths.
Round2(x) ==
    LET n == 100 * x[1]
        q == n \div x[2]
        r == n % x[2]
    IN  IF 2 * r < x[2] THEN q
        ELSE IF 2 * r > x[2] THEN q + 1
        ELSE IF q % 2 = 0 THEN q ELSE q + 1

(***************************************************************************)
(* Clock arithmetic and label rendering                                    *)
(***************************************************************************)
\* Session close, datetime.strptime(f"{t_date} 15:30:00"), in seconds.
MarketClose == 15 * 3600 + 30 * 60

\* dt.replace(second=0, microsecond=0)
TruncMinute(t) == t - (t % 60)

\* current_time + timedelta(minutes=1)
NextMinute(t) == t + 60

DigitChars == <<"0", "1", "2", "3", "4", "5", "6", "7", "8", "9">>

\* A number below 100 as two characters, zero padded (%I, %M, %S).
TwoDigits(n) == <<DigitChars[(n \div 10) + 1], DigitChars[(n % 10) + 1]>>

\* %I: the hour on the 12-hour clock, 01..12.
Hour12(t) == LET h == (t \div 3600) % 12 IN IF h = 0 THEN 12 ELSE h

\* %p
AmPm(t) == IF (t \div 3600) < 12 THEN <<"A", "M">> ELSE <<"P", "M">>

\* strftime('%I:%M:%S %p') as a sequence of characters.
StrfHMSp(t) ==
    TwoDigits(Hour12(t)) \o <<":">> \o TwoDigits((t \div 60) % 60) \o <<":">>
        \o TwoDigits(t % 60) \o <<" ">> \o AmPm(t)

\* strftime('%I:%M %p') as a sequence of characters.
StrfHMp(t) ==
    TwoDigits(Hour12(t)) \o <<":">> \o TwoDigits((t \div 60) % 60)
        \o <<" ">> \o AmPm(t)

\* Mutant of LStrip0: the zero-padded hour is kept.
LStrip0Forgotten(s) == s

\* str.lstrip('0'): every leading "0" removed.
RECURSIVE LStrip0(_)
LStrip0(s) == IF s # <<>> /\ Head(s) = "0" THEN LStrip0(Tail(s)) ELSE s

\* time_str_db / lookup_ts: the key the engine looks a bar up with (the
\* "{t_date} " prefix is the same on both sides of the join and is left out).
LookupTs(t) == LStrip0(StrfHMSp(t))

\* The "time" tag of an emitted point.
TimeLabel(t) == LStrip0(StrfHMp(t))

\* The key the cache writer stores a candle under: one leading "0" dropped.
CacheTs(t) ==
    LET s == StrfHMSp(t) IN IF Head(s) = "0" THEN Tail(s) ELSE s

(***************************************************************************)
(* Trade application (the body of the for-loop over minute_txns)           *)
(***************************************************************************)
\* t_qty = int(abs(txn['quantity']))
TQty(txn) == Abs(txn.quantity)

\* t_price = float(txn['price'])
TPrice(txn) == R(txn.price)

\* pnl_mult = 1 if inv['side'] == 'LONG' else -1
PnlMult(side) == IF side = "LONG" THEN 1 ELSE -1

\* Mutant of OpenPosition: the side test compares with the wrong literal.
OpenPositionWrongLiteral(txn) ==
    [qty |-> TQty(txn), avg_price |-> TPrice(txn),
     side |-> IF txn.txn_type = "BUY" THEN "LONG" ELSE "SHORT"]

\* Branch 1: no entry, or an entry with qty 0: a fresh entry replaces it.
OpenPosition(txn) ==
    [qty |-> TQty(txn), avg_price |-> TPrice(txn),
     side |-> IF txn.txn_type = "B" THEN "LONG" ELSE "SHORT"]

\* Mutant of AddToPosition: the plain mean of the two prices.
AddToPositionPlainMean(inv, txn) ==
    [inv EXCEPT
        !.avg_price = RDiv(RAdd(inv.avg_price, TPrice(txn)), R(2)),
        !.qty = inv.qty + TQty(txn)]

\* Branch 2: same direction: quantity-weighted average price.
AddToPosition(inv, txn) ==
    LET new_total == inv.qty + TQty(txn)
    IN  [inv EXCEPT
            !.avg_price = RDiv(RAdd(RMul(inv.avg_price, R(inv.qty)),
                                     RMul(TPrice(txn), R(TQty(txn)))),
                               R(new_total)),
            !.qty = new_total]

\* Mutant of FlipPosition: the average price is not reset to the trade price.
FlipPositionKeepAvg(inv, txn) ==
    [qty |-> TQty(txn) - inv.qty, avg_price |-> inv.avg_price,
     side |-> IF inv.side = "LONG" THEN "SHORT" ELSE "LONG"]

\* Branch 3: opposing trade larger than the position: the entry after the flip.
FlipPosition(inv, txn) ==
    [qty |-> TQty(txn) - inv.qty, avg_price |-> TPrice(txn),
     side |-> IF inv.side = "LONG" THEN "SHORT" ELSE "LONG"]

\* Branch 3: what the flip adds to realized_pnl_bucket.
FlipRealized(inv, txn) ==
    RMul(RMul(RSub(TPrice(txn), inv.avg_price), R(inv.qty)), R(PnlMult(inv.side)))

\* Mutant of ReducePosition: any opposing trade closes the whole position.
ReducePositionToFlat(inv, txn) == [inv EXCEPT !.qty = 0]

\* Branch 4: opposing trade not larger than the position: the entry after it.
ReducePosition(inv, txn) == [inv EXCEPT !.qty = inv.qty - TQty(txn)]

\* Mutant of ReduceRealized: PnL realized on the whole position.
ReduceRealizedWholeQty(inv, txn) ==
    RMul(RMul(RSub(TPrice(txn), inv.avg_price), R(inv.qty)), R(PnlMult(inv.side)))

\* Branch 4: what the partial (or full) close adds to realized_pnl_bucket.
ReduceRealized(inv, txn) ==
    RMul(RMul(RSub(TPrice(txn), inv.avg_price), R(TQty(txn))), R(PnlMult(inv.side)))

\* The branch a trade takes against the inventory.
TxnBranch(inventory, txn) ==
    LET inst == txn.broker_symbol IN
    IF inst \notin DOMAIN inventory \/ inventory[inst].qty = 0 THEN "open"
    ELSE IF (inventory[inst].side = "LONG" /\ txn.txn_type = "B")
             \/ (inventory[inst].side = "SHORT" /\ txn.txn_type = "S") THEN "add"
    ELSE IF TQty(txn) > inventory[inst].qty THEN "flip"
    ELSE "reduce"

\* dict assignment inventory[inst] = entry
PutEntry(inventory, inst, entry) ==
    [k \in DOMAIN inventory \cup {inst} |->
        IF k = inst THEN entry ELSE inventory[k]]

\* One iteration of the for-loop: the inventory and realized PnL after txn.
ApplyTxn(st, txn) ==
    LET inst == txn.broker_symbol
        br == TxnBranch(st.inventory, txn)
    IN  IF br = "open" THEN
            [inventory |-> PutEntry(st.inventory, inst, OpenPosition(txn)),
             realized |-> st.realized]
        ELSE IF br = "add" THEN
            [inventory |-> PutEntry(st.inventory, inst,
                                    AddToPosition(st.inventory[inst], txn)),
             realized |-> st.realized]
        ELSE IF br = "flip" THEN
            [inventory |-> PutEntry(st.inventory, inst,
                                    FlipPosition(st.inventory[inst], txn)),
             realized |-> RAdd(st.realized, FlipRealized(st.inventory[inst], txn))]
        ELSE
            [inventory |-> PutEntry(st.inventory, inst,
                                    ReducePosition(st.inventory[inst], txn)),
             realized |-> RAdd(st.realized, ReduceRealized(st.inventory[inst], txn))]

\* The for-loop over a whole minute's trades, in the order given.
RECURSIVE ApplyTxns(_, _)
ApplyTxns(st, txns) ==
    IF txns = <<>> THEN st ELSE ApplyTxns(ApplyTxn(st, Head(txns)), Tail(txns))

(***************************************************************************)
(* Mark-to-market of one minute                                            *)
(***************************************************************************)
\* An optional Python value: None is the empty sequence, a value v is <<v>>.
None == <<>>

\* dict.get(key): the stored value, or None.
DictGet(d, key) == IF key \in DOMAIN d THEN <<d[key]>> ELSE None

\* has_active_inventory / has_active after the loop over inventory.items()
HasActive(inventory) == \E inst \in DOMAIN inventory : inventory[inst].qty > 0

RECURSIVE SumOver(_, _)
SumOver(f, keys) ==
    IF keys = {} THEN R(0)
    ELSE LET k == CHOOSE x \in keys : TRUE
         IN  RAdd(f[k], SumOver(f, keys \ {k}))

\* Closing processor: `if close_val:` is false for None and for 0.0.
ClosingTruthy(close_val) == close_val # None /\ close_val[1] # 0

\* Closing processor: one instrument's addition to m_close.
ClosingContribution(data, close_val) ==
    IF data.qty > 0 /\ ClosingTruthy(close_val)
    THEN RMul(RMul(RSub(R(close_val[1]), data.avg_price), R(data.qty)),
              R(PnlMult(data.side)))
    ELSE R(0)

\* Closing processor: m_close for the minute starting at t.
MClose(inventory, lookup, t) ==
    SumOver([inst \in DOMAIN inventory |->
                ClosingContribution(inventory[inst],
                                    DictGet(lookup, <<inst, LookupTs(t)>>))],
            DOMAIN inventory)

\* Closing processor: the point appended for the minute starting at t.
ClosingPoint(realized, inventory, lookup, t) ==
    [pnl |-> Round2(RAdd(realized, MClose(inventory, lookup, t))),
     time |-> TimeLabel(t)]

\* Banded processor: `if ohlc:` is false for None only (a row is a non-empty dict).
OhlcTruthy(ohlc) == ohlc # None

\* Mutant of OhlcContribution: a missed lookup is read as a candle of zeros.
OhlcContributionMissAsZero(data, ohlc) ==
    LET bar == IF ohlc = None THEN [close |-> 0, high |-> 0, low |-> 0] ELSE ohlc[1]
    IN  IF data.qty > 0 THEN
            IF data.side = "LONG" THEN
                [c |-> RMul(RSub(R(bar.close), data.avg_price), R(data.qty)),
                 h |-> RMul(RSub(R(bar.high), data.avg_price), R(data.qty)),
                 l |-> RMul(RSub(R(bar.low), data.avg_price), R(data.qty))]
            ELSE
                [c |-> RMul(RSub(data.avg_price, R(bar.close)), R(data.qty)),
                 h |-> RMul(RSub(data.avg_price, R(bar.low)), R(data.qty)),
                 l |-> RMul(RSub(data.avg_price, R(bar.high)), R(data.qty))]
        ELSE [c |-> R(0), h |-> R(0), l |-> R(0)]

\* Mutant of OhlcContribution: a SHORT is marked like a LONG with the sign
\* turned, its high-based value from the bar's high and its low-based value
\* from the bar's low.
OhlcContributionShortUnmirrored(data, ohlc) ==
    IF data.qty > 0 /\ OhlcTruthy(ohlc) THEN
        IF data.side = "LONG" THEN
            [c |-> RMul(RSub(R(ohlc[1].close), data.avg_price), R(data.qty)),
             h |-> RMul(RSub(R(ohlc[1].high), data.avg_price), R(data.qty)),
             l |-> RMul(RSub(R(ohlc[1].low), data.avg_price), R(data.qty))]
        ELSE
            [c |-> RMul(RSub(data.avg_price, R(ohlc[1].close)), R(data.qty)),
             h |-> RMul(RSub(data.avg_price, R(ohlc[1].high)), R(data.qty)),
             l |-> RMul(RSub(data.avg_price, R(ohlc[1].low)), R(data.qty))]
    ELSE [c |-> R(0), h |-> R(0), l |-> R(0)]

\* Mutant of OhlcContribution: the SHORT's high-based value taken from the
\* bar's high and its low-based value from the bar's close.
OhlcContributionShortFromHigh(data, ohlc) ==
    IF data.qty > 0 /\ OhlcTruthy(ohlc) THEN
        IF data.side = "LONG" THEN
            [c |-> RMul(RSub(R(ohlc[1].close), data.avg_price), R(data.qty)),
             h |-> RMul(RSub(R(ohlc[1].high), data.avg_price), R(data.qty)),
             l |-> RMul(RSub(R(ohlc[1].low), data.avg_price), R(data.qty))]
        ELSE
            [c |-> RMul(RSub(data.avg_price, R(ohlc[1].close)), R(data.qty)),
             h |-> RMul(RSub(data.avg_price, R(ohlc[1].high)), R(data.qty)),
             l |-> RMul(RSub(data.avg_price, R(ohlc[1].close)), R(data.qty))]
    ELSE [c |-> R(0), h |-> R(0), l |-> R(0)]

\* Banded processor: one instrument's additions to m_c, m_h, m_l.
OhlcContribution(data, ohlc) ==
    IF data.qty > 0 /\ OhlcTruthy(ohlc) THEN
        IF data.side = "LONG" THEN
            [c |-> RMul(RSub(R(ohlc[1].close), data.avg_price), R(data.qty)),
             h |-> RMul(RSub(R(ohlc[1].high), data.avg_price), R(data.qty)),
             l |-> RMul(RSub(R(ohlc[1].low), data.avg_price), R(data.qty))]
        ELSE
            [c |-> RMul(RSub(data.avg_price, R(ohlc[1].close)), R(data.qty)),
             h |-> RMul(RSub(data.avg_price, R(ohlc[1].low)), R(data.qty)),
             l |-> RMul(RSub(data.avg_price, R(ohlc[1].high)), R(data.qty))]
    ELSE [c |-> R(0), h |-> R(0), l |-> R(0)]

\* Banded processor: m_c, m_h, m_l for the minute starting at t.
MBand(inventory, lookup, t) ==
    LET con == [inst \in DOMAIN inventory |->
                   OhlcContribution(inventory[inst],
                                    DictGet(lookup, <<inst, LookupTs(t)>>))]
    IN  [c |-> SumOver([i \in DOMAIN inventory |-> con[i].c], DOMAIN inventory),
         h |-> SumOver([i \in DOMAIN inventory |-> con[i].h], DOMAIN inventory),
         l |-> SumOver([i \in DOMAIN inventory |-> con[i].l], DOMAIN inventory)]

\* str(round(x, 2)): the sign of the float (a negative x that rounds to zero
\* prints as "-0.0"), the whole part and the two-decimal fraction.
StrRound2(x) ==
    [neg |-> x[1] < 0, whole |-> Abs(Round2(x)) \div 100,
     frac |-> Abs(Round2(x)) % 100]

\* Banded processor: the point appended for the minute starting at t.
OhlcPoint(realized, inventory, lookup, t) ==
    LET m == MBand(inventory, lookup, t)
    IN  [time |-> TimeLabel(t),
         c |-> StrRound2(RAdd(realized, m.c)),
         h |-> StrRound2(RAdd(realized, m.h)),
         l |-> StrRound2(RAdd(realized, m.l))]

\* The point either processor appends.
MinutePoint(v, realized, inventory, lookup, t) ==
    IF v = "closing" THEN ClosingPoint(realized, inventory, lookup, t)
    ELSE OhlcPoint(realized, inventory, lookup, t)

\* ohlc_lookup as either processor builds it from the fetched cache rows:
\* (symbol, ts) -> float(close), or (symbol, ts) -> row.
BuildLookup(v, rows) ==
    [key \in {<<r.symbol, r.ts>> : r \in rows} |->
        LET r == CHOOSE x \in rows : <<x.symbol, x.ts>> = key
        IN  IF v = "closing" THEN r.close
            ELSE [close |-> r.close, high |-> r.high, low |-> r.low]]

(***************************************************************************)
(* The minute loop                                                         *)
(***************************************************************************)
\* df_all[(dt_obj >= current_time) & (dt_obj < next_minute)]
MinuteTxns(df, t) ==
    SelectSeq(df, LAMBDA r : r.dt_obj >= t /\ r.dt_obj < NextMinute(t))

RECURSIVE SeqMin(_)
SeqMin(ts) ==
    IF Len(ts) = 1 THEN ts[1]
    ELSE LET m == SeqMin(Tail(ts)) IN IF ts[1] <= m THEN ts[1] ELSE m

RECURSIVE SeqMax(_)
SeqMax(ts) ==
    IF Len(ts) = 1 THEN ts[1]
    ELSE LET m == SeqMax(Tail(ts)) IN IF ts[1] >= m THEN ts[1] ELSE m

\* df_all['dt_obj'].min() and .max()
DtMin(df) == SeqMin([i \in 1..Len(df) |-> df[i].dt_obj])
DtMax(df) == SeqMax([i \in 1..Len(df) |-> df[i].dt_obj])

\* Mutant of StopRule: the cursor need only have reached the last trade.
StopRuleAtLastTrade(inventory, t, df) == ~HasActive(inventory) /\ t >= DtMax(df)

\* `if not has_active_inventory and current_time > df_all['dt_obj'].max(): break`
StopRule(inventory, t, df) == ~HasActive(inventory) /\ t > DtMax(df)

\* df_all.sort_values(by='dt_obj'): insertion of one row behind its equals.
RECURSIVE InsertByDt(_, _)
InsertByDt(sorted, r) ==
    IF sorted = <<>> THEN <<r>>
    ELSE IF Head(sorted).dt_obj <= r.dt_obj
         THEN <<Head(sorted)>> \o InsertByDt(Tail(sorted), r)
         ELSE <<r>> \o sorted

RECURSIVE SortValues(_)
SortValues(rows) ==
    IF rows = <<>> THEN <<>>
    ELSE InsertByDt(SortValues(SubSeq(rows, 1, Len(rows) - 1)), rows[Len(rows)])

\* The whole while-loop as a function of the sorted trades and the lookup:
\* the series built from cursor t on, given the state st and the points so far.
RECURSIVE ReplayFrom(_, _, _, _, _, _)
ReplayFrom(v, df, lookup, st, t, series) ==
    IF t > MarketClose THEN series
    ELSE LET st2 == ApplyTxns(st, MinuteTxns(df, t))
             s2 == Append(series,
                          MinutePoint(v, st2.realized, st2.inventory, lookup, t))
         IN  IF StopRule(st2.inventory, t, df) THEN s2
             ELSE ReplayFrom(v, df, lookup, st2, NextMinute(t), s2)

\* inventory = {}, realized_pnl_bucket = 0.0
EmptyBook == [inventory |-> <<>>, realized |-> R(0)]

\* pnl_series of one unit, from the first trade's minute.
ReplaySeries(v, df, lookup) ==
    ReplayFrom(v, df, lookup, EmptyBook, TruncMinute(DtMin(df)), <<>>)

\* Mutant of InvalidTime: a first trade in the closing minute is rejected too.
InvalidTimeAtClose(t) == t >= MarketClose

\* `if current_time > market_close` before the loop
InvalidTime(t) == t > MarketClose

\* Mutant of RecordExists: the existence check never finds the record.
RecordExistsNever(tbl, u) == FALSE

\* `if check.data:` a record of this unit is already in the PnL table
RecordExists(tbl, u) == tbl[u] # None

(***************************************************************************)
(* State                                                                   *)
(***************************************************************************)
VARIABLES
    verification,        \* table strategy_trades_verification: unit -> rows
    pnl_table,           \* table intraday_pnl_1min_closing / _ohlc: unit -> record
    market_ohlc_cache,   \* table market_ohlc_cache: unit -> candle rows of its date
    variant,             \* which processor runs: "closing" or "ohlc"
    pc,                  \* position of the processor in the per-unit body
    date_list,           \* (strategy, date) units still to process, in order
    df_all,              \* the unit's trade rows, sorted by dt_obj
    ohlc_lookup,         \* (symbol, ts) -> close, or -> row
    inventory,           \* symbol -> [qty, avg_price, side]
    realized_pnl_bucket, \* cumulative realized PnL
    pnl_series,          \* the points emitted so far
    current_time,        \* cursor of the minute loop
    minute_txns,         \* trades of the current minute not yet applied
    applied,             \* the trade rows applied to the inventory, in order
    w2,                  \* a second worker process: its position and locals
    join,                \* one minute as the engine and the cache writer render it
    daily_strategy_pnl,  \* table daily_strategy_pnl: the day rows of one strategy
    expectancy,          \* table expectancy: the records of that strategy
    all_expectancy_payloads, \* the records the summarizer has computed
    spark,               \* a series handed to downsample_series, and its result
    run,                 \* one run of a program whose store may fail a call
    step                 \* position of the refresh / summarizer pipeline

\* The state of the other programs, left alone by the PnL processor.
auxVars == <<w2, join, daily_strategy_pnl, expectancy, all_expectancy_payloads,
            spark, run, step>>

vars == <<verification, pnl_table, market_ohlc_cache, variant, pc, date_list,
          df_all, ohlc_lookup, inventory, realized_pnl_bucket, pnl_series,
          current_time, minute_txns, applied, auxVars>>

dbVars == <<verification, pnl_table, market_ohlc_cache>>
replayVars == <<df_all, ohlc_lookup, inventory, realized_pnl_bucket, pnl_series,
                current_time, minute_txns, applied>>

\* The (strategy_id, trade_date) keys of the tables, in sorted order.
UnitOrder == <<"u1", "u2">>
Units == {UnitOrder[i] : i \in 1..Len(UnitOrder)}

\* The unit the loop body is working on.
Unit == Head(date_list)

\* fetch_all_verified_records and the strategy_map grouping: the units that
\* have a pending row with usable OHLC data, strategies and dates sorted.
IsQueued(rows) ==
    \E i \in 1..Len(rows) :
        /\ rows[i].status = "pending"
        /\ rows[i].ohlc_status \in {"verified_ohlc_present", "partial_ohlc_data"}

PendingUnits(ver) == SelectSeq(UnitOrder, LAMBDA u : IsQueued(ver[u]))

\* .update({status column: s}).eq(strategy_id).eq(trade_date): every row of the unit.
SetStatus(ver, u, s) ==
    [ver EXCEPT ![u] = [i \in 1..Len(ver[u]) |-> [ver[u][i] EXCEPT !.status = s]]]

\* df_all['broker_symbol'].unique()
Instruments(df) == {df[i].broker_symbol : i \in 1..Len(df)}

\* fetch_ohlc_data_paginated(symbols, t_date)
FetchOhlcRows(cache, u, symbols) == {r \in cache[u] : r.symbol \in symbols}

(***************************************************************************)
(* Actions: the body of `for t_date in date_list`                          *)
(***************************************************************************)
\* `continue` / end of the body: on to the next unit, or out of both loops.
NextUnit ==
    /\ date_list' = Tail(date_list)
    /\ pc' = IF Tail(date_list) = <<>> THEN "done" ELSE "check"

\* check = select from the PnL table for this unit
CheckExisting ==
    /\ pc = "check"
    /\ UNCHANGED auxVars
    /\ pc' = IF RecordExists(pnl_table, Unit) THEN "sync" ELSE "fetch_trades"
    /\ UNCHANGED <<dbVars, variant, date_list, replayVars>>

\* if check.data: status synced to completed; continue
SyncStatus ==
    /\ pc = "sync"
    /\ UNCHANGED auxVars
    /\ verification' = SetStatus(verification, Unit, "completed")
    /\ NextUnit
    /\ UNCHANGED <<pnl_table, market_ohlc_cache, variant, replayVars>>

\* res = select * for this unit; if not res.data: continue; sort by dt_obj
FetchTrades ==
    /\ pc = "fetch_trades"
    /\ UNCHANGED auxVars
    /\ IF verification[Unit] = <<>>
       THEN NextUnit /\ UNCHANGED df_all
       ELSE /\ df_all' = SortValues(verification[Unit])
            /\ pc' = "fetch_ohlc"
            /\ UNCHANGED date_list
    /\ UNCHANGED <<dbVars, variant, ohlc_lookup, inventory, realized_pnl_bucket,
                   pnl_series, current_time, minute_txns, applied>>

\* The bars are fetched, the replay state initialised and the first trade's
\* minute validated against the session close; the while-loop is entered.
FetchOhlc ==
    /\ pc = "fetch_ohlc"
    /\ UNCHANGED auxVars
    /\ ohlc_lookup' = BuildLookup(variant,
                          FetchOhlcRows(market_ohlc_cache, Unit, Instruments(df_all)))
    /\ inventory' = <<>>
    /\ realized_pnl_bucket' = R(0)
    /\ pnl_series' = <<>>
    /\ applied' = <<>>
    /\ current_time' = TruncMinute(DtMin(df_all))
    /\ IF InvalidTime(current_time')
       THEN pc' = "skip_invalid" /\ UNCHANGED minute_txns
       ELSE pc' = "txns" /\ minute_txns' = MinuteTxns(df_all, current_time')
    /\ UNCHANGED <<dbVars, variant, date_list, df_all>>

\* if current_time > market_close: status skipped_invalid_time; continue
SkipInvalid ==
    /\ pc = "skip_invalid"
    /\ UNCHANGED auxVars
    /\ verification' = SetStatus(verification, Unit, "skipped_invalid_time")
    /\ NextUnit
    /\ UNCHANGED <<pnl_table, market_ohlc_cache, variant, replayVars>>

\* One iteration of `for _, txn in minute_txns.iterrows()`
ApplyTrade ==
    /\ pc = "txns"
    /\ UNCHANGED auxVars
    /\ minute_txns # <<>>
    /\ LET st == ApplyTxn([inventory |-> inventory, realized |-> realized_pnl_bucket],
                          Head(minute_txns))
       IN  /\ inventory' = st.inventory
           /\ realized_pnl_bucket' = st.realized
    /\ minute_txns' = Tail(minute_txns)
    /\ applied' = Append(applied, Head(minute_txns))
    /\ UNCHANGED <<dbVars, variant, pc, date_list, df_all, ohlc_lookup, pnl_series,
                   current_time>>

\* The rest of the while-body once the minute's trades are applied: mark to
\* market, append the point, then break or advance the cursor and re-test
\* `while current_time <= market_close`.
MarkMinute ==
    /\ pc = "txns"
    /\ UNCHANGED auxVars
    /\ minute_txns = <<>>
    /\ pnl_series' = Append(pnl_series,
                        MinutePoint(variant, realized_pnl_bucket, inventory,
                                    ohlc_lookup, current_time))
    /\ IF StopRule(inventory, current_time, df_all)
       THEN /\ pc' = "upsert"
            /\ UNCHANGED <<current_time, minute_txns>>
       ELSE /\ current_time' = NextMinute(current_time)
            /\ IF current_time' <= MarketClose
               THEN pc' = "txns" /\ minute_txns' = MinuteTxns(df_all, current_time')
               ELSE pc' = "upsert" /\ UNCHANGED minute_txns
    /\ UNCHANGED <<dbVars, variant, date_list, df_all, ohlc_lookup, inventory,
                   realized_pnl_bucket, applied>>

\* What the store can do with an upsert for key u. The closing processor names
\* the conflict target (on_conflict="strategy_id, trade_date"): the row of the
\* key is replaced. The banded processor names none, so the store resolves the
\* conflict on the table's primary key, which the repository does not fix: a
\* row already there for the key is replaced (the key is the primary key), or
\* a second row is added (it is not), or the insert is rejected (it is not,
\* and the key is unique).
UpsertOutcomes(v, tbl, u) ==
    IF v = "closing" \/ tbl[u] = <<>> THEN {"replace"}
    ELSE {"replace", "append", "raise"}

UpsertRecord(tbl, u, series, o) ==
    IF o = "replace" THEN [tbl EXCEPT ![u] = <<series>>]
    ELSE IF o = "append" THEN [tbl EXCEPT ![u] = Append(tbl[u], series)]
    ELSE tbl

\* if pnl_series: upsert the record of this unit
Upsert ==
    /\ pc = "upsert"
    /\ UNCHANGED auxVars
    /\ IF pnl_series # <<>>
       THEN \E o \in UpsertOutcomes(variant, pnl_table, Unit) :
                /\ pnl_table' = UpsertRecord(pnl_table, Unit, pnl_series, o)
                /\ pc' = IF o = "raise" THEN "aborted" ELSE "mark_completed"
                /\ UNCHANGED date_list
       ELSE NextUnit /\ UNCHANGED pnl_table
    /\ UNCHANGED <<verification, market_ohlc_cache, variant, replayVars>>

\* status completed for this unit
MarkCompleted ==
    /\ pc = "mark_completed"
    /\ UNCHANGED auxVars
    /\ verification' = SetStatus(verification, Unit, "completed")
    /\ NextUnit
    /\ UNCHANGED <<pnl_table, market_ohlc_cache, variant, replayVars>>

Next ==
    \/ CheckExisting
    \/ SyncStatus
    \/ FetchTrades
    \/ FetchOhlc
    \/ SkipInvalid
    \/ ApplyTrade
    \/ MarkMinute
    \/ Upsert
    \/ MarkCompleted

(***************************************************************************)
(* Inputs: the table contents a run starts from                            *)
(***************************************************************************)
\* Seconds since midnight of hh:mm:ss.
Clock(h, m, sec) == h * 3600 + m * 60 + sec

\* A row of strategy_trades_verification as the verification step inserts it
\* and the OHLC fetcher marks it: pending, with bars present.
Row(inst, type, qty, price, dt) ==
    [broker_symbol |-> inst, txn_type |-> type, quantity |-> qty, price |-> price,
     dt_obj |-> dt, ohlc_status |-> "verified_ohlc_present", status |-> "pending"]

\* Ledgers of 1..MaxTrades rows over the given (symbol, side) legs and field
\* values, in any order that is non-decreasing in time (rows of equal time in
\* either order).
Ledgers(legs, qtys, prices, times) ==
    LET rows == {Row(g[1], g[2], q, p, d) : g \in legs,
                                            q \in qtys, p \in prices, d \in times}
    IN  UNION {{l \in [1..n -> rows] :
                   \A k \in 1..(n - 1) : l[k].dt_obj <= l[k + 1].dt_obj}
               : n \in 1..MaxTrades}

\* The minutes of the session the model's ledgers can reach.
CacheMinutes == {Clock(15, 28, 0), Clock(15, 29, 0), Clock(15, 30, 0)}

\* The candles of one symbol in the cache: none, ordinary bars, bars whose
\* close is 0, or ordinary bars with the 15:29 candle missing.
Candles(inst, profile) ==
    IF profile = "none" THEN {}
    ELSE IF profile = "bars" THEN
        {[symbol |-> inst, ts |-> CacheTs(m), close |-> 11, high |-> 13, low |-> 9]
            : m \in CacheMinutes}
    ELSE IF profile = "zero" THEN
        {[symbol |-> inst, ts |-> CacheTs(m), close |-> 0, high |-> 1, low |-> 0]
            : m \in CacheMinutes}
    ELSE
        {[symbol |-> inst, ts |-> CacheTs(m), close |-> 11, high |-> 13, low |-> 9]
            : m \in CacheMinutes \ {Clock(15, 29, 0)}}

\* A record persisted by an earlier run of the same processor (its values are
\* ones no replay of the model's ledgers produces).
OldRecord(v) ==
    IF v = "closing" THEN <<<<[pnl |-> 77777, time |-> TimeLabel(MarketClose)]>>>>
    ELSE LET x == [neg |-> FALSE, whole |-> 777, frac |-> 77]
         IN  <<<<[time |-> TimeLabel(MarketClose), c |-> x, h |-> x, l |-> x]>>>>

\* A unit an earlier run completed.
DoneRows ==
    <<[Row("A", "B", 1, 10, Clock(15, 28, 0)) EXCEPT !.status = "completed"]>>

\* Family 1: one instrument, every side, quantity and price, all trades in
\* the 15:28 minute; the unit u2 was completed by an earlier run.
AccountingInputs(v) ==
    {[verification |-> [u \in Units |-> IF u = "u1" THEN l ELSE DoneRows],
      pnl_table |-> [u \in Units |-> IF u = "u1" THEN None ELSE OldRecord(v)],
      market_ohlc_cache |-> [u \in Units |-> IF u = "u1" THEN Candles("A", pa) ELSE {}]]
        : l \in Ledgers({<<"A", "B">>, <<"A", "S">>}, 1..MaxQty, {10, 12},
                        {Clock(15, 28, 0)}),
          pa \in {"none", "bars"}}

\* Family 2: two instruments (both sides of A, buys of B), unit quantities at
\* one price, trades spread
\* over the end of the session and past the close, every mix of candles.
TimingInputs(v) ==
    {[verification |-> [u \in Units |-> IF u = "u1" THEN l ELSE DoneRows],
      pnl_table |-> [u \in Units |-> IF u = "u1" THEN None ELSE OldRecord(v)],
      market_ohlc_cache |-> [u \in Units |->
          IF u = "u1" THEN Candles("A", pr[1]) \cup Candles("B", pr[2]) ELSE {}]]
        : l \in Ledgers({<<"A", "B">>, <<"A", "S">>, <<"B", "B">>}, {1}, {10},
                        {Clock(15, 28, 0), Clock(15, 29, 30), Clock(15, 30, 45),
                         Clock(15, 31, 0)}),
          pr \in {<<"bars", "bars">>, <<"none", "bars">>, <<"zero", "bars">>,
                  <<"gap", "none">>}}

\* Family 3: both units pending, one trade each; either may already have a
\* record from an earlier run.
QueueInputs(v) ==
    LET one == {<<Row("A", t, 1, 10, d)>> :
                   t \in {"B", "S"}, d \in {Clock(15, 29, 30), Clock(15, 31, 0)}}
    IN  {[verification |-> [u \in Units |-> IF u = "u1" THEN l1 ELSE l2],
          pnl_table |-> [u \in Units |-> IF u = "u1" THEN r1 ELSE r2],
          market_ohlc_cache |-> [u \in Units |-> Candles("A", "bars")]]
            : l1 \in one, l2 \in one, r1 \in {None, OldRecord(v)}, r2 \in {None, OldRecord(v)}}

\* Family 4: the worked example: BUY 50 @ 100 at 09:20, BUY 50 @ 110 at 09:21,
\* SELL 120 @ 108 at 09:25, one candle cached, that of 09:25 with close 107.
ExampleLedger ==
    <<Row("A", "B", 50, 100, Clock(9, 20, 0)), Row("A", "B", 50, 110, Clock(9, 21, 0)),
      Row("A", "S", 120, 108, Clock(9, 25, 0))>>

ExampleInputs(v) ==
    {[verification |-> [u \in Units |-> IF u = "u1" THEN ExampleLedger ELSE DoneRows],
      pnl_table |-> [u \in Units |-> IF u = "u1" THEN None ELSE OldRecord(v)],
      market_ohlc_cache |-> [u \in Units |->
          IF u = "u1"
          THEN {[symbol |-> "A", ts |-> CacheTs(Clock(9, 25, 0)),
                 close |-> 107, high |-> 109, low |-> 106]}
          ELSE {}]]}

Inputs(v) ==
    AccountingInputs(v) \cup TimingInputs(v) \cup QueueInputs(v) \cup ExampleInputs(v)

Variants == {"closing", "ohlc"}

\* No second worker, no pipeline run: the other programs are not running.
Idle == <<>>
AuxIdle ==
    /\ w2 = Idle
    /\ join = Idle
    /\ daily_strategy_pnl = <<>>
    /\ expectancy = <<>>
    /\ all_expectancy_payloads = <<>>
    /\ spark = Idle
    /\ run = Idle
    /\ step = "idle"

\* The state on entry to the loop over the queued units.
Init ==
    \E v \in Variants : \E in \in Inputs(v) :
        /\ variant = v
        /\ verification = in.verification
        /\ pnl_table = in.pnl_table
        /\ market_ohlc_cache = in.market_ohlc_cache
        /\ date_list = PendingUnits(in.verification)
        /\ pc = "check"
        /\ df_all = <<>>
        /\ ohlc_lookup = <<>>
        /\ inventory = <<>>
        /\ realized_pnl_bucket = R(0)
        /\ pnl_series = <<>>
        /\ current_time = 0
        /\ minute_txns = <<>>
        /\ applied = <<>>
        /\ AuxIdle

Spec == Init /\ [][Next]_vars

(***************************************************************************)
(* Properties of trade application                                         *)
(***************************************************************************)
\* A trade is about to be applied by the next step.
Applying == pc = "txns" /\ minute_txns # <<>>

\* The trade the next ApplyTrade step applies, and its instrument.
Txn == Head(minute_txns)
TxnInst == Txn.broker_symbol

\* The instrument of the trade holds an open position.
TxnHitsOpen == TxnInst \in DOMAIN inventory /\ inventory[TxnInst].qty > 0

\* The trade opposes that position: SELL against LONG, BUY against SHORT.
TxnOpposes ==
    \/ inventory[TxnInst].side = "LONG" /\ Txn.txn_type = "S"
    \/ inventory[TxnInst].side = "SHORT" /\ Txn.txn_type = "B"

\* (trade_price - A) * n * sign for the position the trade hits.
ClosedPnl(n) ==
    LET diff == RSub(R(Txn.price), inventory[TxnInst].avg_price)
        sign == IF inventory[TxnInst].side = "LONG" THEN 1 ELSE -1
    IN  RMul(diff, R(n * sign))

\* The minute's trades are applied and no point of the unit is emitted yet.
FirstMinuteApplied == pc = "txns" /\ minute_txns = <<>> /\ pnl_series = <<>>

\* df_all[i] is the trade `type qty @ price`.
IsTrade(i, type, qty, price) ==
    /\ i <= Len(df_all)
    /\ df_all[i].txn_type = type
    /\ df_all[i].quantity = qty
    /\ df_all[i].price = price

\* The inventory holds exactly `qty @ avg, side` for symbol A.
HoldsA(qty, avg, side) ==
    /\ "A" \in DOMAIN inventory
    /\ inventory["A"] = [qty |-> qty, avg_price |-> avg, side |-> side]

\* C1 (flip): an opposing trade of quantity q > Q against an open position
\* Q @ A adds (trade_price - A) * Q * sign to realized PnL and leaves the
\* opposite side with quantity q - Q at the trade price, in both processors.
C1_Flip ==
    [][(Applying /\ TxnHitsOpen /\ TxnOpposes
            /\ Txn.quantity > inventory[TxnInst].qty)
        => /\ realized_pnl_bucket'
                = RAdd(realized_pnl_bucket, ClosedPnl(inventory[TxnInst].qty))
           /\ inventory'[TxnInst]
                = [qty |-> Txn.quantity - inventory[TxnInst].qty,
                   avg_price |-> R(Txn.price),
                   side |-> IF inventory[TxnInst].side = "LONG"
                            THEN "SHORT" ELSE "LONG"]]_vars

\* LONG 1 @ 10, then SELL 2 @ 12: realized 2, SHORT 1 @ 12 (banded processor).
C1_Witness ==
    /\ FirstMinuteApplied /\ variant = "ohlc" /\ Len(df_all) = 2
    /\ IsTrade(1, "B", 1, 10) /\ IsTrade(2, "S", 2, 12)
    /\ HoldsA(1, R(12), "SHORT")
    /\ realized_pnl_bucket = R(2)

\* C2 (partial close): an opposing trade of quantity q <= Q against an open
\* position Q @ A adds (trade_price - A) * q * sign to realized PnL, leaves
\* quantity Q - q and keeps side and average price, also when q = Q.
C2_PartialClose ==
    [][(Applying /\ TxnHitsOpen /\ TxnOpposes
            /\ Txn.quantity <= inventory[TxnInst].qty)
        => /\ realized_pnl_bucket' = RAdd(realized_pnl_bucket, ClosedPnl(Txn.quantity))
           /\ inventory'[TxnInst]
                = [qty |-> inventory[TxnInst].qty - Txn.quantity,
                   avg_price |-> inventory[TxnInst].avg_price,
                   side |-> inventory[TxnInst].side]]_vars

\* SHORT 2 @ 12, then BUY 1 @ 10: realized 2, SHORT 1 @ 12 left.
C2_Witness ==
    /\ FirstMinuteApplied /\ variant = "closing" /\ Len(df_all) = 2
    /\ IsTrade(1, "S", 2, 12) /\ IsTrade(2, "B", 1, 10)
    /\ HoldsA(1, R(12), "SHORT")
    /\ realized_pnl_bucket = R(2)

\* C3 (same-direction add): a BUY into LONG or SELL into SHORT of q @ P on an
\* open position Q @ A keeps the side, makes the quantity Q + q and the
\* average price (A*Q + P*q) / (Q + q), and leaves realized PnL unchanged.
C3_SameDirectionAdd ==
    [][(Applying /\ TxnHitsOpen /\ ~TxnOpposes)
        => /\ realized_pnl_bucket' = realized_pnl_bucket
           /\ inventory'[TxnInst]
                = [qty |-> inventory[TxnInst].qty + Txn.quantity,
                   avg_price |->
                       LET old == inventory[TxnInst]
                       IN  Rat(old.avg_price[1] * old.qty
                                   + Txn.price * Txn.quantity * old.avg_price[2],
                               old.avg_price[2] * (old.qty + Txn.quantity)),
                   side |-> inventory[TxnInst].side]]_vars

\* SHORT 1 @ 10, then SELL 2 @ 12: SHORT 3 @ 34/3, nothing realized.
C3_Witness ==
    /\ FirstMinuteApplied /\ variant = "closing" /\ Len(df_all) = 2
    /\ IsTrade(1, "S", 1, 10) /\ IsTrade(2, "S", 2, 12)
    /\ HoldsA(3, <<34, 3>>, "SHORT")
    /\ realized_pnl_bucket = R(0)

\* C4 (open): a trade on a symbol with no entry, or with an entry of quantity
\* 0 whatever its stale side and average price, opens quantity q at the trade
\* price, LONG for a BUY and SHORT for a SELL, and realizes nothing.
C4_Open ==
    [][(Applying /\ ~TxnHitsOpen)
        => /\ realized_pnl_bucket' = realized_pnl_bucket
           /\ inventory'[TxnInst]
                = [qty |-> Txn.quantity, avg_price |-> R(Txn.price),
                   side |-> IF Txn.txn_type = "B" THEN "LONG" ELSE "SHORT"]]_vars

\* LONG 1 @ 10 is closed by SELL 1 @ 12 (entry left flat, LONG @ 10), then
\* BUY 2 @ 12 opens LONG 2 @ 12 and not LONG 2 @ 34/3.
C4_Witness ==
    /\ FirstMinuteApplied /\ variant = "ohlc" /\ Len(df_all) = 3
    /\ IsTrade(1, "B", 1, 10) /\ IsTrade(2, "S", 1, 12) /\ IsTrade(3, "B", 2, 12)
    /\ HoldsA(2, R(12), "LONG")
    /\ realized_pnl_bucket = R(2)

(***************************************************************************)
(* Properties of the emitted series                                        *)
(***************************************************************************)
\* df_all, ohlc_lookup and pnl_series are those of the unit being replayed.
InReplay == pc \in {"txns", "upsert", "mark_completed"}

\* The while-loop of the unit is over.
LoopOver == pc \in {"upsert", "mark_completed"}

\* The earliest trade's minute, and the minute of the k-th point.
StartMinute == DtMin(df_all) - (DtMin(df_all) % 60)
MinuteOf(k) == StartMinute + 60 * (k - 1)

\* Inventory and realized PnL after every trade stamped before m + 1 minute,
\* applied in ledger order.
BookAt(m) ==
    ApplyTxns(EmptyBook, SelectSeq(df_all, LAMBDA r : r.dt_obj < m + 60))

\* The symbols holding an open quantity in a book.
OpenIn(book) == {i \in DOMAIN book.inventory : book.inventory[i].qty > 0}

\* The cached candles of the unit for symbol i at minute m.
BarsAt(i, m) ==
    {r \in market_ohlc_cache[Unit] : r.symbol = i /\ r.ts = CacheTs(m)}

BarAt(i, m) == CHOOSE r \in BarsAt(i, m) : TRUE

\* Sum of f over a set of symbols.
RECURSIVE RSum(_, _)
RSum(f, keys) ==
    IF keys = {} THEN R(0)
    ELSE LET k == CHOOSE x \in keys : TRUE
         IN  RAdd(f[k], RSum(f, keys \ {k}))

\* (close - avg) * qty for LONG, (avg - close) * qty for SHORT.
UnrealizedAtClose(pos, close) ==
    IF pos.side = "LONG"
    THEN RMul(RSub(R(close), pos.avg_price), R(pos.qty))
    ELSE RMul(RSub(pos.avg_price, R(close)), R(pos.qty))

\* round(realized + unrealized, 2) at minute m with every open symbol marked
\* at its cached close.
MarkedAtClose(m) ==
    LET book == BookAt(m)
    IN  Round2(RAdd(book.realized,
                    RSum([i \in OpenIn(book) |->
                             UnrealizedAtClose(book.inventory[i], BarAt(i, m).close)],
                         OpenIn(book))))

\* C5 (close-only point): at every minute at which each open symbol has a
\* cached candle, the closing processor's point is round(realized +
\* unrealized, 2), trades stamped inside the minute applied before the mark.
C5_ClosingPoint ==
    (InReplay /\ variant = "closing")
        => \A k \in 1..Len(pnl_series) :
               (\A i \in OpenIn(BookAt(MinuteOf(k))) : BarsAt(i, MinuteOf(k)) # {})
                   => pnl_series[k].pnl = MarkedAtClose(MinuteOf(k))

\* The worked example in the closing processor: the 09:25 point is 320.00, the
\* 300 realized by the flip plus 20 on the SHORT 20 @ 108 marked at 107.
ExampleGives320 ==
    (InReplay /\ variant = "closing" /\ df_all = ExampleLedger /\ Len(pnl_series) >= 6)
        => /\ pnl_series[6] = [pnl |-> 32000, time |-> <<"9", ":", "2", "5", " ", "A", "M">>]
           /\ MarkedAtClose(MinuteOf(6)) = 32000

\* The example has been replayed to the end of the session.
ExampleReplayed ==
    /\ pc = "done" /\ variant = "closing" /\ df_all = ExampleLedger
    /\ Len(pnl_series) = 371

\* What the closing processor does: C5 at the minutes at which no open
\* symbol's cached close is 0.
ClosingPointNonZeroClose ==
    (InReplay /\ variant = "closing")
        => \A k \in 1..Len(pnl_series) :
               (\A i \in OpenIn(BookAt(MinuteOf(k))) :
                    /\ BarsAt(i, MinuteOf(k)) # {}
                    /\ BarAt(i, MinuteOf(k)).close # 0)
                   => pnl_series[k].pnl = MarkedAtClose(MinuteOf(k))

\* The open symbols of a book without a cached candle at minute m.
MissingAt(m) == {i \in OpenIn(BookAt(m)) : BarsAt(i, m) = {}}

\* A lookup of the series so far missed.
MissSeen == \E k \in 1..Len(pnl_series) : MissingAt(MinuteOf(k)) # {}

\* The point of minute m computed from the symbols that have a candle alone.
PointWithoutMissing(m) ==
    LET book == BookAt(m)
        kept == DOMAIN book.inventory \ MissingAt(m)
    IN  MinutePoint(variant, book.realized,
                    [i \in kept |-> book.inventory[i]], ohlc_lookup, m)

\* Every row of unit u carries status st.
AllRows(ver, u, st) == \A i \in 1..Len(ver[u]) : ver[u][i].status = st

\* C6 (missing bar): at a minute at which the lookup misses for an open
\* symbol the point is still emitted, with that symbol contributing 0 and the
\* realized PnL and the other symbols' contributions as without it ...
C6_PointsDespiteMiss ==
    InReplay
        => \A k \in 1..Len(pnl_series) :
               MissingAt(MinuteOf(k)) # {}
                   => /\ pnl_series[k] = PointWithoutMissing(MinuteOf(k))
                      /\ pnl_series[k].time = TimeLabel(MinuteOf(k))

\* ... every minute of the loop emits its point, miss or no miss ...
C6_MinuteEmitted ==
    (pc = "txns" /\ minute_txns = <<>>)
        => /\ Len(pnl_series') = Len(pnl_series) + 1
           /\ pnl_series'[Len(pnl_series')].time = TimeLabel(current_time)

\* ... and the unit is persisted and ends completed.
C6_StillCompleted ==
    /\ (pc = "upsert" /\ MissSeen)
          => (pc' = "mark_completed" /\ pnl_table'[Unit] = <<pnl_series>>)
    /\ (pc = "mark_completed" /\ MissSeen)
          => AllRows(verification', Unit, "completed")

\* C6: missing-bar degradation, in both processors.
C6_MissingBar ==
    /\ []C6_PointsDespiteMiss
    /\ [][C6_MinuteEmitted]_vars
    /\ [][C6_StillCompleted]_vars

\* A is open without candles, B is open with candles: the 15:28 point shows
\* B's unrealized PnL alone, and the unit is completed.
C6_Witness ==
    /\ pc = "done" /\ variant = "closing" /\ Len(df_all) = 2
    /\ df_all[1].broker_symbol = "A" /\ df_all[2].broker_symbol = "B"
    /\ df_all[2].dt_obj = Clock(15, 28, 0)
    /\ ohlc_lookup # <<>>
    /\ \A key \in DOMAIN ohlc_lookup : key[1] = "B"
    /\ Len(pnl_series) = 3
    /\ pnl_series[1] = [pnl |-> 100, time |-> <<"3", ":", "2", "8", " ", "P", "M">>]
    /\ pnl_table["u1"] = <<pnl_series>>
    /\ AllRows(verification, "u1", "completed")

(***************************************************************************)
(* Properties of the unit: validation, extent of the series, skipping      *)
(***************************************************************************)
\* The earliest trade of the fetched rows, truncated to the minute, is later
\* than 15:30:00.
FirstTradeAfterClose == StartMinute > 15 * 3600 + 30 * 60

\* The rows of unit u after an update that may only touch the status column.
OnlyStatusSet(u, st) ==
    /\ Len(verification'[u]) = Len(verification[u])
    /\ \A i \in 1..Len(verification[u]) :
           verification'[u][i] = [verification[u][i] EXCEPT !.status = st]

\* Nothing of the other units' rows changes.
OtherUnitsKept(u) == \A o \in Units \ {u} : verification'[o] = verification[o]

\* C7, the validation step: a first trade minute later than 15:30:00 leads to
\* the skip with nothing replayed; one at or before 15:30:00 enters the loop
\* at that minute.
C7_Validate ==
    pc = "fetch_ohlc"
        => /\ UNCHANGED dbVars
           /\ pnl_series' = <<>> /\ inventory' = <<>>
           /\ IF FirstTradeAfterClose
              THEN pc' = "skip_invalid"
              ELSE /\ pc' = "txns"
                   /\ current_time' = StartMinute
                   /\ minute_txns' # <<>>

\* C7, the skip: the status of the unit becomes skipped_invalid_time and
\* nothing else changes: no trade applied, no point, no record.
C7_Skip ==
    pc = "skip_invalid"
        => /\ OnlyStatusSet(Unit, "skipped_invalid_time")
           /\ OtherUnitsKept(Unit)
           /\ pnl_table' = pnl_table /\ pnl_table[Unit] = None
           /\ pnl_series' = <<>> /\ inventory' = <<>>
           /\ pc' \in {"check", "done"}

\* C7, afterwards: a unit skipped for its time has no record.
C7_NoRecord ==
    \A u \in Units :
        (verification[u] # <<>> /\ AllRows(verification, u, "skipped_invalid_time"))
            => pnl_table[u] = None

\* C7 (invalid time): skipped_invalid_time exactly when the earliest trade's
\* minute is after 15:30:00, with no trade applied, no point and no record;
\* otherwise (a first trade at 15:30:45 included) the unit is replayed.
C7_InvalidTime == []C7_NoRecord /\ [][C7_Validate]_vars /\ [][C7_Skip]_vars

\* Unit u1 (first trade 15:31:00) ends skipped without a record while unit u2
\* (first trade 15:29:30) is replayed and completed.
C7_Witness ==
    /\ pc = "done"
    /\ verification["u1"][1].dt_obj = Clock(15, 31, 0)
    /\ AllRows(verification, "u1", "skipped_invalid_time")
    /\ pnl_table["u1"] = None
    /\ AllRows(verification, "u2", "completed")
    /\ pnl_table["u2"] = <<pnl_series>>
    /\ Len(pnl_series) = 2

\* No symbol is open after the trades stamped before m + 1 minute, and m is
\* past the last trade.
StopsAt(m) == OpenIn(BookAt(m)) = {} /\ m > DtMax(df_all)

\* The minutes from the first trade's minute to 15:30.
SessionMinutes == {StartMinute + 60 * i : i \in 0..((MarketClose - StartMinute) \div 60)}

\* The minute of the last point: the first stopping minute, else 15:30.
LastMinute ==
    LET stops == {m \in SessionMinutes : StopsAt(m)}
    IN  IF stops = {} THEN MarketClose
        ELSE CHOOSE m \in stops : \A e \in stops : m <= e

\* C8 (extent and stop rule): the points are those of consecutive minutes
\* from the earliest trade's minute, one each, none after 15:30; the last one
\* is that of the first minute with no open quantity and the cursor past the
\* last trade, or of 15:30 when there is no such minute.
C8_SeriesExtent ==
    InReplay
        => LET last == LastMinute
           IN  /\ \A k \in 1..Len(pnl_series) :
                      /\ pnl_series[k].time = TimeLabel(MinuteOf(k))
                      /\ MinuteOf(k) <= MarketClose
                      /\ MinuteOf(k) <= last
               /\ LoopOver => MinuteOf(Len(pnl_series)) = last
               /\ pc = "txns" => (current_time = MinuteOf(Len(pnl_series) + 1)
                                    /\ current_time <= last)

\* BUY then SELL at 15:28:00 leave A flat; the cursor passes the last trade
\* at 15:29, where the series ends with its second point.
C8_Witness ==
    /\ pc = "upsert" /\ Len(df_all) = 2
    /\ IsTrade(1, "B", 1, 10) /\ IsTrade(2, "S", 1, 12)
    /\ df_all[2].dt_obj = Clock(15, 28, 0)
    /\ Len(pnl_series) = 2
    /\ pnl_series[2].time = <<"3", ":", "2", "9", " ", "P", "M">>

\* The orders in which rows of equal timestamp can come out of the sort.
TieOrders(df) ==
    {[i \in 1..Len(df) |-> df[f[i]]] :
        f \in {g \in [1..Len(df) -> 1..Len(df)] :
                  /\ \A i, j \in 1..Len(df) : i # j => g[i] # g[j]
                  /\ \A i \in 1..(Len(df) - 1) : df[g[i]].dt_obj <= df[g[i + 1]].dt_obj}}

\* C9 (determinism): the series of a unit is the same for every order of its
\* equal-timestamp rows, the lookup being the same.
C9_Determinism ==
    LoopOver
        => \A other \in TieOrders(df_all) :
               ReplaySeries(variant, other, ohlc_lookup) = pnl_series

\* What holds: the step-by-step replay is the function ReplaySeries of the
\* sorted rows and the lookup.
SeriesIsFunctionOfOrder ==
    LoopOver => pnl_series = ReplaySeries(variant, df_all, ohlc_lookup)

\* C10, the check: with a record present the processor goes to the status
\* update and touches nothing.
C10_Check ==
    (pc = "check" /\ pnl_table[Unit] # None)
        => /\ pc' = "sync"
           /\ UNCHANGED <<dbVars, date_list, replayVars>>

\* C10, the update: the status of the unit's rows becomes completed; the
\* record, the other units and the replay state stay as they are, and the
\* processor is at the next unit.
C10_Sync ==
    pc = "sync"
        => /\ pnl_table[Unit] # None
           /\ OnlyStatusSet(Unit, "completed")
           /\ OtherUnitsKept(Unit)
           /\ UNCHANGED <<pnl_table, market_ohlc_cache, replayVars>>
           /\ date_list' = Tail(date_list)
           /\ pc' \in {"check", "done"}

\* C10 (skip-if-exists): a unit with a record is not replayed and its record
\* is not modified; only its status is set to completed.
C10_SkipIfExists == [][C10_Check]_vars /\ [][C10_Sync]_vars

\* Both units had a record: both are completed, the records are the old ones
\* and no trade was ever fetched.
C10_Witness ==
    /\ pc = "done"
    /\ AllRows(verification, "u1", "completed")
    /\ AllRows(verification, "u2", "completed")
    /\ pnl_table["u1"] = OldRecord(variant) /\ pnl_table["u2"] = OldRecord(variant)
    /\ df_all = <<>> /\ pnl_series = <<>>

(***************************************************************************)
(* Failure of a collaborator call, and unit states                         *)
(***************************************************************************)
\* A call to the store raises inside the per-unit body, or the run is killed:
\* nothing in the body catches it, the exception leaves the function, the
\* handler of __main__ reports the error and the process exits. The failing
\* call has no effect on the tables.
Abort ==
    /\ pc \notin {"done", "aborted"}
    /\ UNCHANGED auxVars
    /\ pc' = "aborted"
    /\ UNCHANGED <<dbVars, variant, date_list, replayVars>>

NextOrAbort == Next \/ Abort

\* The per-unit loop with failures.
SpecAbort == Init /\ [][NextOrAbort]_vars

\* The record of u was written by this run (earlier records are OldRecord).
WrittenByRun(u) == pnl_table[u] # None /\ pnl_table[u] # OldRecord(variant)

UnitUntouched(u) == AllRows(verification, u, "pending") /\ ~WrittenByRun(u)
UnitCompleted(u) == AllRows(verification, u, "completed") /\ pnl_table[u] # None
UnitSkipped(u) == AllRows(verification, u, "skipped_invalid_time") /\ pnl_table[u] = None

\* C11 (no partial unit state): in every reachable state, failures and aborts
\* included, each unit is untouched, completed or skipped_invalid_time; no
\* unit has a record persisted by this run while its status is still pending.
C11_NoPartialUnit ==
    \A u \in Units :
        /\ UnitUntouched(u) \/ UnitCompleted(u) \/ UnitSkipped(u)
        /\ WrittenByRun(u) => ~AllRows(verification, u, "pending")

\* The run stopped between the upsert and the status update: the record of
\* the unit is persisted and its rows are still pending.
C11_PartialAfterAbort ==
    /\ pc = "aborted" /\ date_list # <<>>
    /\ WrittenByRun(Unit) /\ AllRows(verification, Unit, "pending")

\* What the two calls do guarantee: outside the step between the upsert and
\* the status update, and in every run that ends normally, no unit is partial.
NoPartialUnitOutsideGap ==
    (pc \notin {"mark_completed", "aborted"}) => C11_NoPartialUnit

(***************************************************************************)
(* Two workers on the same queue                                           *)
(***************************************************************************)
\* The second worker runs the same code. Its steps are the calls to the
\* store; the replay between the fetch and the upsert touches only its own
\* locals and is taken with the fetch.
W2Unit == Head(w2.date_list)

W2NextUnit(w) ==
    [w EXCEPT !.date_list = Tail(w.date_list),
              !.pc = IF Tail(w.date_list) = <<>> THEN "done" ELSE "check"]

W2Frozen ==
    UNCHANGED <<market_ohlc_cache, variant, pc, date_list, replayVars, join,
                daily_strategy_pnl, expectancy, all_expectancy_payloads, spark, run, step>>

\* check = select from the PnL table for this unit
W2CheckExisting ==
    /\ w2 # Idle /\ w2.pc = "check"
    /\ w2' = [w2 EXCEPT !.pc = IF RecordExists(pnl_table, W2Unit)
                                THEN "sync" ELSE "fetch_trades"]
    /\ UNCHANGED <<verification, pnl_table>>
    /\ W2Frozen

\* if check.data: status synced to completed; continue
W2SyncStatus ==
    /\ w2 # Idle /\ w2.pc = "sync"
    /\ verification' = SetStatus(verification, W2Unit, "completed")
    /\ w2' = W2NextUnit(w2)
    /\ UNCHANGED pnl_table
    /\ W2Frozen

\* The trades and the bars are fetched, the first minute validated and the
\* minutes replayed.
W2Replay ==
    /\ w2 # Idle /\ w2.pc = "fetch_trades"
    /\ IF verification[W2Unit] = <<>>
       THEN w2' = W2NextUnit(w2)
       ELSE LET df == SortValues(verification[W2Unit])
                lookup == BuildLookup(variant,
                              FetchOhlcRows(market_ohlc_cache, W2Unit, Instruments(df)))
            IN  IF InvalidTime(TruncMinute(DtMin(df)))
                THEN w2' = [w2 EXCEPT !.pc = "skip_invalid", !.df_all = df]
                ELSE w2' = [w2 EXCEPT !.pc = "upsert", !.df_all = df,
                                      !.pnl_series = ReplaySeries(variant, df, lookup)]
    /\ UNCHANGED <<verification, pnl_table>>
    /\ W2Frozen

\* if current_time > market_close: status skipped_invalid_time; continue
W2SkipInvalid ==
    /\ w2 # Idle /\ w2.pc = "skip_invalid"
    /\ verification' = SetStatus(verification, W2Unit, "skipped_invalid_time")
    /\ w2' = W2NextUnit(w2)
    /\ UNCHANGED pnl_table
    /\ W2Frozen

\* if pnl_series: upsert the record of this unit
W2Upsert ==
    /\ w2 # Idle /\ w2.pc = "upsert"
    /\ IF w2.pnl_series # <<>>
       THEN \E o \in UpsertOutcomes(variant, pnl_table, W2Unit) :
                /\ pnl_table' = UpsertRecord(pnl_table, W2Unit, w2.pnl_series, o)
                /\ w2' = [w2 EXCEPT !.pc = IF o = "raise" THEN "aborted"
                                               ELSE "mark_completed"]
       ELSE w2' = W2NextUnit(w2) /\ UNCHANGED pnl_table
    /\ UNCHANGED verification
    /\ W2Frozen

\* status completed for this unit
W2MarkCompleted ==
    /\ w2 # Idle /\ w2.pc = "mark_completed"
    /\ verification' = SetStatus(verification, W2Unit, "completed")
    /\ w2' = W2NextUnit(w2)
    /\ UNCHANGED pnl_table
    /\ W2Frozen

NextDup ==
    \/ CheckExisting
    \/ SyncStatus
    \/ FetchTrades
    \/ FetchOhlc
    \/ SkipInvalid
    \/ ApplyTrade
    \/ MarkMinute
    \/ Upsert
    \/ MarkCompleted
    \/ W2CheckExisting
    \/ W2SyncStatus
    \/ W2Replay
    \/ W2SkipInvalid
    \/ W2Upsert
    \/ W2MarkCompleted

\* Both workers have read the same queue and stand at its first unit.
InitDup ==
    \E v \in Variants : \E in \in QueueInputs(v) :
        /\ variant = v
        /\ verification = in.verification
        /\ pnl_table = in.pnl_table
        /\ market_ohlc_cache = in.market_ohlc_cache
        /\ date_list = PendingUnits(in.verification)
        /\ pc = "check"
        /\ df_all = <<>>
        /\ ohlc_lookup = <<>>
        /\ inventory = <<>>
        /\ realized_pnl_bucket = R(0)
        /\ pnl_series = <<>>
        /\ current_time = 0
        /\ minute_txns = <<>>
        /\ applied = <<>>
        /\ w2 = [pc |-> "check", date_list |-> PendingUnits(in.verification),
                 df_all |-> <<>>, pnl_series |-> <<>>]
        /\ join = Idle
        /\ daily_strategy_pnl = <<>>
        /\ expectancy = <<>>
        /\ all_expectancy_payloads = <<>>
        /\ spark = Idle
        /\ run = Idle
        /\ step = "idle"

SpecDup == InitDup /\ [][NextDup]_vars

\* Both workers are through their queues (or stopped by a rejected insert).
BothFinished == pc \in {"done", "aborted"} /\ w2 # Idle /\ w2.pc \in {"done", "aborted"}

\* The series one worker alone computes for unit u.
SingleWorkerSeries(u) ==
    LET df == SortValues(verification[u])
    IN  ReplaySeries(variant, df,
            BuildLookup(variant, FetchOhlcRows(market_ohlc_cache, u, Instruments(df))))

ReplayableUnit(u) ==
    verification[u] # <<>> /\ ~InvalidTime(TruncMinute(DtMin(verification[u])))

\* After both workers: a replayable unit has exactly one record, the earlier
\* one or the single-worker series, and is completed.
C12_Final ==
    BothFinished =>
        \A u \in Units :
            (ReplayableUnit(u) \/ pnl_table[u] # <<>>)
                => /\ Len(pnl_table[u]) = 1
                   /\ pnl_table[u] \in {OldRecord(variant), <<SingleWorkerSeries(u)>>}
                   /\ AllRows(verification, u, "completed")

\* The record of a key, once there, is never changed or joined by another.
C12_RecordStable ==
    \A u \in Units : pnl_table[u] # <<>> => pnl_table'[u] = pnl_table[u]

\* A step changes the rows and the record of no unit but the one the
\* stepping worker is on.
C12_OtherKeysKept ==
    \A u \in Units :
        (verification'[u] # verification[u] \/ pnl_table'[u] # pnl_table[u])
            => \/ w2' = w2 /\ date_list # <<>> /\ u = Unit
               \/ w2' # w2 /\ u = W2Unit

DuplicateWorkClosing ==
    /\ [](variant = "closing" => C12_Final)
    /\ [][variant = "closing" => C12_RecordStable]_vars
    /\ [][C12_OtherKeysKept]_vars

\* Both workers replayed u1 and upserted it: two records under one key.
C12_TwoRecords ==
    /\ BothFinished /\ variant = "ohlc"
    /\ Len(pnl_table["u1"]) = 2
    /\ AllRows(verification, "u1", "completed")

(***************************************************************************)
(* Properties of the banded points                                         *)
(***************************************************************************)
\* The open symbols of the book at minute m that have a cached candle.
MarkedIn(m) == {i \in OpenIn(BookAt(m)) : BarsAt(i, m) # {}}

\* realized + sum over the marked symbols of (bar - avg) * qty for LONG and
\* (avg - bar) * qty for SHORT, the bar's field chosen per side.
BandValue(m, longField, shortField) ==
    LET book == BookAt(m)
    IN  RAdd(book.realized,
             RSum([i \in MarkedIn(m) |->
                      LET pos == book.inventory[i]
                      IN  IF pos.side = "LONG"
                          THEN RMul(RSub(R(BarAt(i, m)[longField]), pos.avg_price),
                                    R(pos.qty))
                          ELSE RMul(RSub(pos.avg_price, R(BarAt(i, m)[shortField])),
                                    R(pos.qty))],
                  MarkedIn(m)))

\* The number of hundredths an emitted string reads as.
StrValue(str) == (IF str.neg THEN -1 ELSE 1) * (str.whole * 100 + str.frac)

\* C13 (banded values): in the banded processor the three strings of every
\* minute read as realized PnL plus the unrealized sums rounded to 2 decimals,
\* close-based from the close, high-based from the high for LONG and the low
\* for SHORT, low-based from the low for LONG and the high for SHORT, over
\* the open symbols with a cached bar.
C13_BandedValues ==
    (InReplay /\ variant = "ohlc")
        => \A k \in 1..Len(pnl_series) :
               /\ StrValue(pnl_series[k].c) = Round2(BandValue(MinuteOf(k), "close", "close"))
               /\ StrValue(pnl_series[k].h) = Round2(BandValue(MinuteOf(k), "high", "low"))
               /\ StrValue(pnl_series[k].l) = Round2(BandValue(MinuteOf(k), "low", "high"))

\* SHORT 1 @ 10 against the bar 11 / 13 / 9: close-based -1.00, high-based
\* (best case, from the low) 1.00, low-based (from the high) -3.00.
C13_Witness ==
    /\ pc = "done" /\ variant = "ohlc" /\ Len(df_all) = 1
    /\ IsTrade(1, "S", 1, 10) /\ df_all[1].dt_obj = Clock(15, 28, 0)
    /\ pnl_series[1].c = [neg |-> TRUE, whole |-> 1, frac |-> 0]
    /\ pnl_series[1].h = [neg |-> FALSE, whole |-> 1, frac |-> 0]
    /\ pnl_series[1].l = [neg |-> TRUE, whole |-> 3, frac |-> 0]

(***************************************************************************)
(* The join key: one minute rendered by the cache writer and by the engine *)
(***************************************************************************)
\* The minutes the cache writer asks candles for: 09:15 to 15:30.
SessionOpen == 9 * 3600 + 15 * 60
JoinMinutes == {SessionOpen + 60 * i : i \in 0..((MarketClose - SessionOpen) \div 60)}

\* The PnL processor is not running.
ProcessorIdle ==
    /\ verification = [u \in Units |-> <<>>]
    /\ pnl_table = [u \in Units |-> None]
    /\ market_ohlc_cache = [u \in Units |-> {}]
    /\ pc = "done"
    /\ date_list = <<>>
    /\ df_all = <<>>
    /\ ohlc_lookup = <<>>
    /\ inventory = <<>>
    /\ realized_pnl_bucket = R(0)
    /\ pnl_series = <<>>
    /\ current_time = 0
    /\ minute_txns = <<>>
    /\ applied = <<>>

JoinFrozen ==
    UNCHANGED <<dbVars, variant, pc, date_list, replayVars, w2,
                daily_strategy_pnl, expectancy, all_expectancy_payloads, spark, run, step>>

\* The cache writer renders the ts of the candle of the minute.
WriteCandleTs ==
    /\ join # Idle /\ join.cache_ts = None
    /\ join' = [join EXCEPT !.cache_ts = CacheTs(join.minute)]
    /\ JoinFrozen

\* The engine, with its cursor on the minute, renders the lookup key and the
\* tag of the point.
RenderMinute ==
    /\ join # Idle /\ join.lookup_ts = None
    /\ join' = [join EXCEPT !.lookup_ts = LookupTs(join.minute),
                            !.time = TimeLabel(join.minute)]
    /\ JoinFrozen

NextJoin == WriteCandleTs \/ RenderMinute

InitJoin ==
    /\ ProcessorIdle
    /\ variant \in Variants
    /\ \E m \in JoinMinutes :
           join = [minute |-> m, cache_ts |-> None, lookup_ts |-> None, time |-> None]
    /\ w2 = Idle
    /\ daily_strategy_pnl = <<>>
    /\ expectancy = <<>>
    /\ all_expectancy_payloads = <<>>
    /\ spark = Idle
    /\ run = Idle
    /\ step = "idle"

SpecJoin == InitJoin /\ [][NextJoin]_vars

\* A number below 100 in decimal without padding.
Decimal(n) ==
    IF n < 10 THEN <<DigitChars[n + 1]>>
    ELSE <<DigitChars[(n \div 10) + 1], DigitChars[(n % 10) + 1]>>

\* The 12-hour time of minute m, no leading zero on the hour, with or without
\* the seconds, then a space and AM or PM.
ClockLabel(m, seconds) ==
    LET h24 == m \div 3600
        h == IF h24 % 12 = 0 THEN 12 ELSE h24 % 12
        mm == (m \div 60) % 60
    IN  Decimal(h) \o <<":", DigitChars[(mm \div 10) + 1], DigitChars[(mm % 10) + 1]>>
            \o (IF seconds THEN <<":", "0", "0">> ELSE <<>>)
            \o <<" ">> \o (IF h24 < 12 THEN <<"A", "M">> ELSE <<"P", "M">>)

\* The engine's key and the writer's key of the minute are equal, character
\* for character, and are the 12-hour time with seconds.
C14_KeysEqual ==
    (join # Idle /\ join.lookup_ts # None)
        => /\ join.lookup_ts = ClockLabel(join.minute, TRUE)
           /\ join.cache_ts # None => join.lookup_ts = join.cache_ts

\* C14 (join key) as stated: the keys are equal and the point is tagged with
\* that same label.
C14_JoinKey ==
    /\ C14_KeysEqual
    /\ (join # Idle /\ join.time # None) => join.time = join.lookup_ts

\* C14 amended: the keys are equal, and the point is tagged with the same
\* minute as 12-hour time without the seconds (and without the date).
C14_JoinKeyTagWithoutSeconds ==
    /\ C14_KeysEqual
    /\ (join # Idle /\ join.time # None) => join.time = ClockLabel(join.minute, FALSE)

\* 09:16 rendered on both sides: "9:16:00 AM" twice, and the tag "9:16 AM".
C14_Witness ==
    /\ join # Idle /\ join.minute = 9 * 3600 + 16 * 60
    /\ join.cache_ts = <<"9", ":", "1", "6", ":", "0", "0", " ", "A", "M">>
    /\ join.lookup_ts = join.cache_ts
    /\ join.time = <<"9", ":", "1", "6", " ", "A", "M">>

(***************************************************************************)
(* A run from the script's entry point                                     *)
(***************************************************************************)
\* The functions the module of either processor defines.
ModuleFunctions(v) ==
    {"report_progress", "fetch_all_verified_records", "fetch_ohlc_data_paginated",
     "calculate_intraday_pnl_1min_closing"}

\* The function the `__main__` block calls.
MainCalls(v) ==
    IF v = "closing" THEN "calculate_intraday_pnl_1min_closing"
    ELSE "calculate_intraday_pnl_1min"

\* The locals of the function assigned before its first print of
\* len(raw_audit_data): the closing processor prints (line 75) before it
\* assigns (line 77).
BoundAtFirstLog(v) == IF v = "closing" THEN {} ELSE {"raw_audit_data"}

\* The columns fetch_all_verified_records selects, and the column the
\* pending filter reads.
AuditColumns(v) ==
    IF v = "closing" THEN {"strategy_id", "trade_date", "pnl_1min_status"}
    ELSE {"strategy_id", "trade_date", "pnl_status"}

FilterColumn(v) == "pnl_1min_status"

RunFrozen == UNCHANGED <<dbVars, variant, replayVars, auxVars>>

\* `__main__`: the call of the processing function; a name the module does
\* not define raises NameError.
MainEntry ==
    /\ pc = "main"
    /\ pc' = IF MainCalls(variant) \in ModuleFunctions(variant) THEN "analyze" ELSE "raised"
    /\ UNCHANGED date_list
    /\ RunFrozen

\* The function up to the loop over the units: the queue is fetched, logged
\* and grouped. Reading an unassigned local raises UnboundLocalError,
\* indexing a column that was not selected raises KeyError.
AnalyzeQueue ==
    /\ pc = "analyze"
    /\ IF "raw_audit_data" \notin BoundAtFirstLog(variant)
       THEN pc' = "raised" /\ UNCHANGED date_list
       ELSE IF PendingUnits(verification) = <<>>
       THEN pc' = "done" /\ UNCHANGED date_list
       ELSE IF FilterColumn(variant) \notin AuditColumns(variant)
       THEN pc' = "raised" /\ UNCHANGED date_list
       ELSE pc' = "check" /\ date_list' = PendingUnits(verification)
    /\ RunFrozen

\* except Exception: report_progress("error", ...); exit(1)
HandleError ==
    /\ pc = "raised"
    /\ pc' = "aborted"
    /\ UNCHANGED date_list
    /\ RunFrozen

\* The steps a run takes from the entry point.
NextRun == MainEntry \/ AnalyzeQueue \/ HandleError

InitRun ==
    \E v \in Variants : \E in \in Inputs(v) :
        /\ variant = v
        /\ verification = in.verification
        /\ pnl_table = in.pnl_table
        /\ market_ohlc_cache = in.market_ohlc_cache
        /\ date_list = <<>>
        /\ pc = "main"
        /\ df_all = <<>>
        /\ ohlc_lookup = <<>>
        /\ inventory = <<>>
        /\ realized_pnl_bucket = R(0)
        /\ pnl_series = <<>>
        /\ current_time = 0
        /\ minute_txns = <<>>
        /\ applied = <<>>
        /\ AuxIdle

\* The process runs until it exits.
SpecRun == InitRun /\ [][NextRun]_vars /\ WF_vars(NextRun)

\* The same with the body of the loop, should the run get there.
NextRunOrLoop == NextRun \/ Next
SpecRunOrLoop == InitRun /\ [][NextRunOrLoop]_vars /\ WF_vars(NextRunOrLoop)

\* A run from the entry point never gets to the loop over the units.
LoopNeverEntered == pc \in {"main", "analyze", "raised", "aborted", "done"}

\* The process has exited.
RunOver == pc \in {"done", "aborted"}

\* The unit has usable bars and trades that start at or before 15:30.
EligibleUnit(u) ==
    /\ ReplayableUnit(u)
    /\ \E i \in 1..Len(verification[u]) :
           verification[u][i].ohlc_status \in {"verified_ohlc_present", "partial_ohlc_data"}

\* C15 (progress): a run from the entry point ends with the series of every
\* pending unit with trades at or before 15:30 persisted and its status
\* completed.
C15_Progress ==
    RunOver =>
        \A u \in Units :
            EligibleUnit(u)
                => pnl_table[u] # None /\ AllRows(verification, u, "completed")

\* The run has exited on the error path with a replayable unit still pending.
C15_ExitedWithPending ==
    /\ pc = "aborted"
    /\ \E u \in Units : EligibleUnit(u) /\ AllRows(verification, u, "pending")
                           /\ pnl_table[u] = None

\* From the head of the loop the same holds: the loop over the queue ends
\* with every eligible unit persisted and completed.
LoopCompletesUnits ==
    (pc = "done")
        => \A u \in Units :
               EligibleUnit(u)
                   => pnl_table[u] # None /\ AllRows(verification, u, "completed")

(***************************************************************************)
(* The daily refresh (6_pnl_refresh.py) and the summarizer                 *)
(* (7_expectancy_calc.py), for the day rows of one strategy                *)
(***************************************************************************)
\* Longest history (day rows of the strategy) drawn by InitSumm.
MaxDays == 4
\* Day rows per calendar month of the drawn histories.
DaysPerMonth == 2

\* The day PnLs and the effective capitals the histories are drawn from. A
\* capital of 0 is a multiplier of 0 in monthly_deployments.
PnlValues == {-2, -1, 0, 3}
CapValues == {0, 2}

\* A float of the summarizer. cls "exact": the float is the rational val;
\* "approx": a finite float whose digits are not carried, val is its sign
\* (0: the sign is not carried either); "inf": val is the sign of the
\* infinity; "nan": not a number.
Exact(x) == [cls |-> "exact", val |-> x]
Approx(sign) == [cls |-> "approx", val |-> R(sign)]
Inf(sign) == [cls |-> "inf", val |-> R(sign)]
NaN == [cls |-> "nan", val |-> R(0)]
Zero == Exact(R(0))

Sign(i) == IF i > 0 THEN 1 ELSE IF i < 0 THEN -1 ELSE 0
IsFinite(x) == x.cls \in {"exact", "approx"}
IsZero(x) == x.cls = "exact" /\ x.val[1] = 0
\* x > 0 and x < 0 as floats compare: False for nan.
Positive(x) == x.val[1] > 0 /\ x.cls # "nan"
Negative(x) == x.val[1] < 0 /\ x.cls # "nan"

\* numpy's float division n / d of two finite numbers: a zero divisor gives
\* an infinity or nan, never an exception.
NpDivide(n, d) ==
    IF d[1] = 0
    THEN IF n[1] = 0 THEN NaN ELSE Inf(Sign(n[1]))
    ELSE Exact(RDiv(n, d))

\* round(x, 6) of a float: ties to even, inf and nan pass through.
Round6(x) ==
    IF x.cls # "exact" THEN x
    ELSE LET n == 1000000 * x.val[1]
             q == n \div x.val[2]
             r == n % x.val[2]
             k == IF 2 * r < x.val[2] THEN q
                  ELSE IF 2 * r > x.val[2] THEN q + 1
                  ELSE IF q % 2 = 0 THEN q ELSE q + 1
         IN  Exact(Rat(k, 1000000))

\* x * 100 of a float.
Times100(x) ==
    IF x.cls = "exact" THEN Exact(RMul(x.val, R(100))) ELSE x

\* Series.cumsum() and Series.cummax() of a sequence of integers.
RECURSIVE SumTo(_, _)
SumTo(s, i) == IF i = 0 THEN 0 ELSE SumTo(s, i - 1) + s[i]
cumsum(s) == [i \in 1..Len(s) |-> SumTo(s, i)]
SetMax(S) == CHOOSE x \in S : \A y \in S : y <= x
\* The largest of the day and the day before, not of all days so far.
rollingmax(s) ==
    [i \in 1..Len(s) |-> SetMax({s[j] : j \in (IF i > 1 THEN i - 1 ELSE 1)..i})]
cummax(s) == [i \in 1..Len(s) |-> SetMax({s[j] : j \in 1..i})]

\* 6_pnl_refresh.py: the rows of the strategy, sorted by trade_date, with
\* their cumulative columns.
StratDf(rows) ==
    LET cumulative_pnl == cumsum([i \in 1..Len(rows) |-> rows[i].pnl])
        peak_cumulative_pnl == cummax(cumulative_pnl)
    IN  [i \in 1..Len(rows) |->
            [pnl |-> rows[i].pnl,
             eff_capital |-> rows[i].eff_capital,
             trade_month |-> rows[i].trade_month,
             cumulative_pnl |-> cumulative_pnl[i],
             peak_cumulative_pnl |-> peak_cumulative_pnl[i],
             max_dd_amount |-> peak_cumulative_pnl[i] - cumulative_pnl[i]]]

\* 7_expectancy_calc.py, the columns read from daily_strategy_pnl.
Pnls(s_df) == [i \in 1..Len(s_df) |-> s_df[i].pnl]
EffCapSeries(s_df) == [i \in 1..Len(s_df) |-> s_df[i].eff_capital]
CumSeries(s_df) == [i \in 1..Len(s_df) |-> s_df[i].cumulative_pnl]
CurrentCapital(s_df) == s_df[Len(s_df)].eff_capital

\* 4. Drawdowns.
Peaks(s_df) == cummax(CumSeries(s_df))
Drawdowns(s_df) ==
    [i \in 1..Len(s_df) |-> Peaks(s_df)[i] - CumSeries(s_df)[i]]
MaxDd(s_df) == SetMax({Drawdowns(s_df)[i] : i \in 1..Len(s_df)})
MaxDdPercent(s_df) ==
    IF CurrentCapital(s_df) > 0
    THEN Round6(NpDivide(R(MaxDd(s_df)), R(CurrentCapital(s_df))))
    ELSE Zero

\* Duration calc: the trough is the first day of the largest drawdown
\* (idxmax), the peak day the last day before it whose cumulative PnL is the
\* peak, the recovery the first day from the trough on at or above the peak.
\* The last day of the largest drawdown, not the first.
TroughIdxLast(s_df) ==
    CHOOSE i \in 1..Len(s_df) :
        /\ Drawdowns(s_df)[i] = MaxDd(s_df)
        /\ \A j \in (i + 1)..Len(s_df) : Drawdowns(s_df)[j] # MaxDd(s_df)
TroughIdx(s_df) ==
    CHOOSE i \in 1..Len(s_df) :
        /\ Drawdowns(s_df)[i] = MaxDd(s_df)
        /\ \A j \in 1..(i - 1) : Drawdowns(s_df)[j] # MaxDd(s_df)
PeakVal(s_df) == Peaks(s_df)[TroughIdx(s_df)]
Recovery(s_df) ==
    {i \in TroughIdx(s_df)..Len(s_df) : CumSeries(s_df)[i] >= PeakVal(s_df)}
PeakIdx(s_df) ==
    SetMax({j \in 1..(TroughIdx(s_df) - 1) : CumSeries(s_df)[j] = PeakVal(s_df)})
SetMin(S) == CHOOSE x \in S : \A y \in S : x <= y
\* A drawdown that has not recovered counted as no duration.
DurationZeroUnrecovered(s_df) ==
    IF MaxDd(s_df) > 0 /\ Recovery(s_df) # {}
    THEN SetMin(Recovery(s_df)) - PeakIdx(s_df)
    ELSE 0
Duration(s_df) ==
    IF MaxDd(s_df) > 0
    THEN IF Recovery(s_df) # {}
         THEN SetMin(Recovery(s_df)) - PeakIdx(s_df)
         ELSE Len(s_df) - PeakIdx(s_df)
    ELSE 0

\* 3. Core math.
Wins(s_df) == SelectSeq(Pnls(s_df), LAMBDA p : p > 0)
Losses(s_df) ==
    LET neg == SelectSeq(Pnls(s_df), LAMBDA p : p < 0)
    IN  [i \in 1..Len(neg) |-> -neg[i]]
NonzeroCount(s_df) == Len(SelectSeq(Pnls(s_df), LAMBDA p : p # 0))
Mean(s) == NpDivide(R(SumTo(s, Len(s))), R(Len(s)))

WinRate(s_df) ==
    IF NonzeroCount(s_df) > 0
    THEN Round6(NpDivide(R(Len(Wins(s_df))), R(NonzeroCount(s_df))))
    ELSE Zero
LossRate(s_df) ==
    IF NonzeroCount(s_df) > 0
    THEN Round6(NpDivide(R(Len(Losses(s_df))), R(NonzeroCount(s_df))))
    ELSE Zero
AvgGain(s_df) == IF Len(Wins(s_df)) > 0 THEN Round6(Mean(Wins(s_df))) ELSE Zero
AvgLoss(s_df) ==
    IF Len(Losses(s_df)) > 0 THEN Round6(Mean(Losses(s_df))) ELSE Zero

\* A ZeroDivisionError in place of a float.
Fault == [cls |-> "fault", val |-> R(0)]
\* round(float(a / b), 6) of two Python floats, the digits of a finite
\* quotient not carried: a zero divisor raises, nan propagates, 0 / b is 0.
Quotient(a, b) ==
    IF a.cls = "nan" \/ b.cls = "nan" THEN NaN
    ELSE IF IsZero(b) THEN Fault
    ELSE IF b.cls = "inf" THEN IF a.cls = "inf" THEN NaN ELSE Zero
    ELSE IF a.cls = "inf" THEN Inf(Sign(a.val[1]) * Sign(b.val[1]))
    ELSE IF IsZero(a) THEN Zero
    ELSE Approx(Sign(a.val[1]) * Sign(b.val[1]))

RrRatio(s_df) ==
    IF Positive(AvgLoss(s_df))
    THEN Quotient(AvgGain(s_df), AvgLoss(s_df))
    ELSE Zero
\* round((win_rate * avg_gain - loss_rate * avg_loss) * 22, 6): the products
\* of the rounded factors are not carried.
MonthlyExp(s_df) == IF NonzeroCount(s_df) = 0 THEN Zero ELSE Approx(0)
MonthlyExpPct(s_df) ==
    IF CurrentCapital(s_df) > 0
    THEN Quotient(MonthlyExp(s_df), Exact(R(CurrentCapital(s_df))))
    ELSE Zero
TotalRetPct(s_df) ==
    IF CurrentCapital(s_df) > 0
    THEN Round6(NpDivide(R(CumSeries(s_df)[Len(s_df)]), R(CurrentCapital(s_df))))
    ELSE Zero
\* round((1 + total_ret_pct) ** (1 / years) - 1, 6): 0 when the base is 1,
\* else a finite float on the side of 0 the base is of 1.
Cagr(s_df) ==
    LET base == RAdd(R(1), TotalRetPct(s_df).val)
    IN  IF base[1] > 0
        THEN IF base = R(1) THEN Zero ELSE Approx(Sign(base[1] - base[2]))
        ELSE Zero

\* 5. Dynamic ROI math.
DailyRets(s_df) ==
    [i \in 1..Len(s_df) |->
        NpDivide(R(Pnls(s_df)[i]), R(EffCapSeries(s_df)[i]))]

RECURSIVE RSumTo(_, _)
RSumTo(s, i) == IF i = 0 THEN R(0) ELSE RAdd(RSumTo(s, i - 1), s[i])
\* The sample variance (ddof = 1) of two or more rationals.
Variance(s) ==
    LET mean == RDiv(RSumTo(s, Len(s)), R(Len(s)))
        sq == [i \in 1..Len(s) |->
                  RMul(RSub(s[i], mean), RSub(s[i], mean))]
    IN  RDiv(RSumTo(sq, Len(s)), R(Len(s) - 1))
\* round(np.std(rets, ddof=1) * np.sqrt(252), 6) of two or more floats: nan
\* as soon as one of them is not finite, 0 when they are all equal, else a
\* positive float.
AnnualStd(rets) ==
    IF \E i \in 1..Len(rets) : rets[i].cls # "exact" THEN NaN
    ELSE IF Variance([i \in 1..Len(rets) |-> rets[i].val]) = R(0) THEN Zero
    ELSE Approx(1)

Vol(s_df) == IF Len(s_df) > 1 THEN AnnualStd(DailyRets(s_df)) ELSE Zero
\* The quotient taken without looking at the volatility.
SharpeUnguarded(s_df) == Quotient(Cagr(s_df), Vol(s_df))
Sharpe(s_df) ==
    IF Positive(Vol(s_df)) THEN Quotient(Cagr(s_df), Vol(s_df)) ELSE Zero
DownsideRets(s_df) == SelectSeq(DailyRets(s_df), Negative)
DownVol(s_df) ==
    IF Len(DownsideRets(s_df)) > 1 THEN AnnualStd(DownsideRets(s_df)) ELSE Zero
Sortino(s_df) ==
    IF Positive(DownVol(s_df)) THEN Quotient(Cagr(s_df), DownVol(s_df)) ELSE Zero
Calmar(s_df) ==
    IF Positive(MaxDdPercent(s_df))
    THEN Quotient(Cagr(s_df), MaxDdPercent(s_df))
    ELSE Zero

\* Points of a sparkline.
SparkPoints == 25

RECURSIVE Pow2(_)
Pow2(e) == IF e = 0 THEN 1 ELSE 2 * Pow2(e - 1)
\* floor(log2(x)) of an integer x >= 1.
RECURSIVE Log2Floor(_)
Log2Floor(x) == IF x < 2 THEN 0 ELSE 1 + Log2Floor(x \div 2)

\* np.linspace(0, m, div + 1) takes step = m / div as a double and the k-th
\* point as the double product k * step. For div = 3 * 2^a and m >= div the
\* quotient has the binary expansion of a third: with E = floor(log2(m/div))
\* the step is rounded down, by a third of its last place 2^(E-52), exactly
\* when 3 does not divide m and m * 2^(52-E-a) leaves 1 modulo 3.
StepRoundsDown(m, div) ==
    LET E == Log2Floor(m \div div)
        a == Log2Floor(div \div 3)
        pow == IF (52 - E - a) % 2 = 0 THEN 1 ELSE 2
    IN  m % 3 # 0 /\ ((m % 3) * pow) % 3 = 1
\* The product k * step of a step rounded down, whose exact value would be
\* the integer M = k * m / div, is a double below M when the shortfall
\* k * 2^(E-52) / 3 is more than half the gap between M and the double
\* before it (a tie rounds to M, the even one).
ProductRoundsBelow(k, m, div) ==
    LET E == Log2Floor(m \div div)
        M == (k * m) \div div
        G == Log2Floor(M)
    IN  /\ (k * m) % div = 0
        /\ IF M = Pow2(G)
           THEN k * Pow2(E + 2) > 3 * Pow2(G)
           ELSE k * Pow2(E + 1) > 3 * Pow2(G)
\* np.linspace(0, m, div + 1).astype(int)[k]: the product truncated, the
\* last point set to m itself.
LinspaceIndex(k, m, div) ==
    IF k = div THEN m
    ELSE IF k > 0 /\ StepRoundsDown(m, div) /\ ProductRoundsBelow(k, m, div)
         THEN (k * m) \div div - 1
         ELSE (k * m) \div div

\* downsample_series: the whole series when it has at most count points,
\* else the points at np.linspace(0, len - 1, count).astype(int).
downsample_series(series, count) ==
    IF Len(series) <= count THEN series
    ELSE [k \in 1..count |->
             series[LinspaceIndex(k - 1, Len(series) - 1, count - 1) + 1]]

\* 6. Sparkline and monthly PnL.
SparkJson(s_df) ==
    LET ratio == [i \in 1..Len(s_df) |->
                     NpDivide(R(CumSeries(s_df)[i]), R(EffCapSeries(s_df)[i]))]
        spark_data == downsample_series(ratio, SparkPoints)
    IN  [k \in 1..Len(spark_data) |-> Round6(Times100(spark_data[k]))]

\* resample('ME')['pnl'].sum(): one sum per calendar month from the first
\* day's month to the last day's.
MonthlyPnl(s_df) ==
    LET first == s_df[1].trade_month
        last == s_df[Len(s_df)].trade_month
    IN  [m \in 1..(last - first + 1) |->
            SumTo([i \in 1..Len(s_df) |->
                      IF s_df[i].trade_month = first + m - 1
                      THEN s_df[i].pnl ELSE 0],
                  Len(s_df))]
PositiveMonthsPct(s_df) ==
    IF MonthlyPnl(s_df) # <<>>
    THEN Round6(NpDivide(R(Len(SelectSeq(MonthlyPnl(s_df), LAMBDA v : v > 0))),
                         R(Len(MonthlyPnl(s_df)))))
    ELSE Zero

\* (cum[-1] - cum[-min(days, n)]) / current_capital, a numpy division.
LastDaysReturnPct(s_df, days) ==
    LET n == Len(s_df)
        back == IF days < n THEN days ELSE n
    IN  IF n > 0
        THEN Round6(NpDivide(R(CumSeries(s_df)[n] - CumSeries(s_df)[n - back + 1]),
                             R(CurrentCapital(s_df))))
        ELSE Zero

\* The record appended to all_expectancy_payloads for the strategy.
ExpectancyPayload(s_df) ==
    [win_rate |-> WinRate(s_df),
     loss_rate |-> LossRate(s_df),
     average_gain |-> AvgGain(s_df),
     average_loss |-> AvgLoss(s_df),
     risk_reward_ratio |-> RrRatio(s_df),
     monthly_expectancy |-> MonthlyExp(s_df),
     monthly_expectancy_percent |-> MonthlyExpPct(s_df),
     max_dd |-> MaxDd(s_df),
     max_dd_percent |-> MaxDdPercent(s_df),
     trade_days_count |-> Len(s_df),
     total_return_pct |-> TotalRetPct(s_df),
     cagr_pct |-> Cagr(s_df),
     last30d_return_pct |-> LastDaysReturnPct(s_df, 30),
     last90d_return_pct |-> LastDaysReturnPct(s_df, 90),
     annual_volatility_pct |-> Vol(s_df),
     sharpe_ratio |-> Sharpe(s_df),
     calmar_ratio |-> Calmar(s_df),
     max_dd_duration_days |-> IF Duration(s_df) > 0 THEN Duration(s_df) ELSE 0,
     sparkline_compact |-> SparkJson(s_df),
     positive_months_pct |-> PositiveMonthsPct(s_df),
     monthly_pnl_json |-> MonthlyPnl(s_df),
     low_sample_flag |-> Len(s_df) < 60,
     sortino_ratio |-> Sortino(s_df),
     annual_downside_volatility_pct |-> DownVol(s_df),
     strategy_capital |-> CurrentCapital(s_df)]

\* The PnL processor and the other programs are left alone by the pipeline.
SummFrozen ==
    UNCHANGED <<dbVars, variant, pc, date_list, replayVars, w2, join, spark, run>>

\* 6_pnl_refresh.py, COMPUTE AND UPSERT: the rows of the strategy get their
\* cumulative columns and are upserted; with no new day the run returns.
PnlRefresh ==
    /\ step = "refresh"
    /\ daily_strategy_pnl' = StratDf(daily_strategy_pnl)
    /\ step' = "summarize"
    /\ UNCHANGED <<expectancy, all_expectancy_payloads>>
    /\ SummFrozen

\* 7_expectancy_calc.py, the loop over the eligible strategies: a strategy
\* without day rows is skipped, else its record is computed.
ComputeStatsAt(from, to) ==
    /\ step = from
    /\ all_expectancy_payloads' =
           IF daily_strategy_pnl = <<>> THEN <<>>
           ELSE <<ExpectancyPayload(daily_strategy_pnl)>>
    /\ step' = to
    /\ UNCHANGED <<daily_strategy_pnl, expectancy>>
    /\ SummFrozen
ComputeStats == ComputeStatsAt("summarize", "upsert")

\* A float the request body can carry.
Serializable(x) == IsFinite(x)
PayloadSerializable(p) ==
    /\ \A f \in {"win_rate", "loss_rate", "average_gain", "average_loss",
                 "risk_reward_ratio", "monthly_expectancy",
                 "monthly_expectancy_percent", "max_dd_percent",
                 "total_return_pct", "cagr_pct", "last30d_return_pct",
                 "last90d_return_pct", "annual_volatility_pct", "sharpe_ratio",
                 "calmar_ratio", "positive_months_pct", "sortino_ratio",
                 "annual_downside_volatility_pct"} : Serializable(p[f])
    /\ \A k \in 1..Len(p.sparkline_compact) : Serializable(p.sparkline_compact[k])

\* upsert(all_expectancy_payloads, on_conflict="strategy_id"): the record of
\* the strategy is replaced; a payload holding inf or nan may be refused,
\* which the except clause reports and the run ends.
ExpectancyOutcomes(payloads) ==
    IF \A k \in 1..Len(payloads) : PayloadSerializable(payloads[k])
    THEN {"replace"}
    ELSE {"replace", "raise"}

\* 7. Upsert to Supabase.
UpsertExpectancyAt(from, to) ==
    /\ step = from
    /\ IF all_expectancy_payloads # <<>>
       THEN \E o \in ExpectancyOutcomes(all_expectancy_payloads) :
                expectancy' = IF o = "replace" THEN all_expectancy_payloads
                              ELSE expectancy
       ELSE UNCHANGED expectancy
    /\ step' = to
    /\ UNCHANGED <<daily_strategy_pnl, all_expectancy_payloads>>
    /\ SummFrozen
UpsertExpectancy == UpsertExpectancyAt("upsert", "done")

NextSumm == PnlRefresh \/ ComputeStats \/ UpsertExpectancy

\* The day rows of the strategy as the refresh has gathered them (df_work),
\* oldest first, DaysPerMonth rows to the month.
Histories ==
    UNION {[1..n -> [pnl : PnlValues, eff_capital : CapValues]] : n \in 0..MaxDays}
DfWork(h) ==
    [i \in 1..Len(h) |->
        [pnl |-> h[i].pnl, eff_capital |-> h[i].eff_capital,
         trade_month |-> (i - 1) \div DaysPerMonth]]

InitSumm ==
    /\ ProcessorIdle
    /\ variant = "closing"
    /\ w2 = Idle
    /\ join = Idle
    /\ \E h \in Histories : daily_strategy_pnl = DfWork(h)
    /\ expectancy = <<>>
    /\ all_expectancy_payloads = <<>>
    /\ spark = Idle
    /\ run = Idle
    /\ step = "refresh"

SpecSumm == InitSumm /\ [][NextSumm]_vars

\* The rows of the strategy carry their cumulative columns.
Refreshed == step \in {"summarize", "upsert", "done"}

\* C16 (drawdown monotonicity): over the day rows in date order the running
\* peak never decreases, it is at or above the cumulative PnL of the day,
\* every drawdown is >= 0, and the max_dd of the record is >= 0, also for a
\* history of losses only.
C16_DrawdownMonotone ==
    /\ Refreshed =>
           \A i \in 1..Len(daily_strategy_pnl) :
               LET r == daily_strategy_pnl[i]
               IN  /\ r.peak_cumulative_pnl >= r.cumulative_pnl
                   /\ r.max_dd_amount = r.peak_cumulative_pnl - r.cumulative_pnl
                   /\ r.max_dd_amount >= 0
                   /\ i > 1 => r.peak_cumulative_pnl
                                   >= daily_strategy_pnl[i - 1].peak_cumulative_pnl
                   /\ Peaks(daily_strategy_pnl)[i] = r.peak_cumulative_pnl
                   /\ Drawdowns(daily_strategy_pnl)[i] = r.max_dd_amount
    /\ \A k \in 1..Len(all_expectancy_payloads) :
           all_expectancy_payloads[k].max_dd >= 0

\* A record has been computed from a history of two or more days that are
\* all losses.
C16_Witness ==
    /\ all_expectancy_payloads # <<>>
    /\ Len(daily_strategy_pnl) >= 2
    /\ \A i \in 1..Len(daily_strategy_pnl) : daily_strategy_pnl[i].pnl < 0
    /\ all_expectancy_payloads[1].max_dd > 0

\* Days of the history with a negative return.
NegativeReturnDays ==
    {i \in 1..Len(daily_strategy_pnl) : daily_strategy_pnl[i].pnl < 0}

\* C17 (Sharpe/Sortino guard): in every computed record, sharpe is 0 when
\* annual_volatility is 0, as it is for a history of one day; sortino is 0
\* when downside_volatility is 0, as it is with fewer than two days of
\* negative return; and both ratios are finite.
C17_SharpeSortinoGuard ==
    \A k \in 1..Len(all_expectancy_payloads) :
        LET p == all_expectancy_payloads[k]
        IN  /\ IsZero(p.annual_volatility_pct) => IsZero(p.sharpe_ratio)
            /\ IsZero(p.annual_downside_volatility_pct) => IsZero(p.sortino_ratio)
            /\ p.trade_days_count = 1 => IsZero(p.annual_volatility_pct)
            /\ Cardinality(NegativeReturnDays) < 2
                   => IsZero(p.annual_downside_volatility_pct)
            /\ IsFinite(p.sharpe_ratio)
            /\ IsFinite(p.sortino_ratio)

\* A record of a single day with a non-zero growth rate: the quotients
\* would divide by a volatility of 0.
C17_Witness ==
    /\ all_expectancy_payloads # <<>>
    /\ all_expectancy_payloads[1].trade_days_count = 1
    /\ ~IsZero(all_expectancy_payloads[1].cagr_pct)
    /\ IsZero(all_expectancy_payloads[1].sharpe_ratio)
    /\ IsZero(all_expectancy_payloads[1].sortino_ratio)

\* Some record has a Sharpe and a Sortino ratio that are not 0.
SharpeSortinoNonZero ==
    \E k \in 1..Len(all_expectancy_payloads) :
        /\ ~IsZero(all_expectancy_payloads[k].sharpe_ratio)
        /\ ~IsZero(all_expectancy_payloads[k].sortino_ratio)

\* The ratios of a record that the source takes under a guard on their
\* denominator.
GuardedRatiosNeutral(p) ==
    /\ p.strategy_capital <= 0
           => /\ IsZero(p.monthly_expectancy_percent)
              /\ IsZero(p.total_return_pct)
              /\ IsZero(p.max_dd_percent)
    /\ ~Positive(p.annual_volatility_pct) => IsZero(p.sharpe_ratio)
    /\ ~Positive(p.annual_downside_volatility_pct) => IsZero(p.sortino_ratio)
    /\ ~Positive(p.max_dd_percent) => IsZero(p.calmar_ratio)
    /\ ~Positive(p.average_loss) => IsZero(p.risk_reward_ratio)
    /\ \A f \in {"win_rate", "loss_rate", "average_gain", "average_loss",
                 "risk_reward_ratio", "monthly_expectancy",
                 "monthly_expectancy_percent", "max_dd_percent",
                 "total_return_pct", "cagr_pct", "sharpe_ratio", "calmar_ratio",
                 "positive_months_pct", "sortino_ratio"} : IsFinite(p[f])

\* C18 (division guard): in every computed record each ratio whose
\* denominator is zero or negative is exactly 0 and no float is infinite or
\* undefined: the ratios to the most recent capital (monthly expectancy
\* percent, total return, max_dd percent, last 30 and 90 day return), the
\* daily returns behind the volatilities and the sparkline point of a day
\* whose capital is 0, the ratios to a volatility and to max_dd percent.
C18_DivisionGuard ==
    \A k \in 1..Len(all_expectancy_payloads) :
        LET p == all_expectancy_payloads[k]
        IN  /\ GuardedRatiosNeutral(p)
            /\ p.strategy_capital <= 0
                   => /\ IsZero(p.last30d_return_pct)
                      /\ IsZero(p.last90d_return_pct)
            /\ IsFinite(p.last30d_return_pct)
            /\ IsFinite(p.last90d_return_pct)
            /\ IsFinite(p.annual_volatility_pct)
            /\ IsFinite(p.annual_downside_volatility_pct)
            /\ \A i \in 1..Len(p.sparkline_compact) :
                   /\ IsFinite(p.sparkline_compact[i])
                   /\ daily_strategy_pnl[i].eff_capital <= 0
                          => IsZero(p.sparkline_compact[i])

\* A record computed from a history with a day of capital 0 carries an
\* infinite or undefined float.
C18_NonFiniteEmitted ==
    /\ all_expectancy_payloads # <<>>
    /\ ~PayloadSerializable(all_expectancy_payloads[1])

\* What the guards of the source do give: the guarded ratios are 0 on a
\* denominator that is not positive, and finite.
C18_GuardedRatios ==
    \A k \in 1..Len(all_expectancy_payloads) :
        GuardedRatiosNeutral(all_expectancy_payloads[k])

\* With a positive capital on every day no float of a record is infinite or
\* undefined.
FiniteOnPositiveCapital ==
    (\A i \in 1..Len(daily_strategy_pnl) : daily_strategy_pnl[i].eff_capital > 0)
        => \A k \in 1..Len(all_expectancy_payloads) :
               PayloadSerializable(all_expectancy_payloads[k])

\* Day t is the trough of the record p: the first day whose drawdown is the
\* largest one.
IsTrough(p, t) ==
    /\ daily_strategy_pnl[t].max_dd_amount = p.max_dd
    /\ \A i \in 1..(t - 1) : daily_strategy_pnl[i].max_dd_amount < p.max_dd
\* Day j is the peak day before the trough t: the last day before t whose
\* cumulative PnL is the running peak at t.
IsPeakDay(j, t) ==
    /\ j < t
    /\ daily_strategy_pnl[j].cumulative_pnl = daily_strategy_pnl[t].peak_cumulative_pnl
    /\ \A i \in (j + 1)..(t - 1) :
           daily_strategy_pnl[i].cumulative_pnl < daily_strategy_pnl[t].peak_cumulative_pnl
\* Day r is the first day from the trough t on whose cumulative PnL is back
\* at or above the peak.
IsRecoveryDay(r, t) ==
    /\ r >= t
    /\ daily_strategy_pnl[r].cumulative_pnl >= daily_strategy_pnl[t].peak_cumulative_pnl
    /\ \A i \in t..(r - 1) :
           daily_strategy_pnl[i].cumulative_pnl < daily_strategy_pnl[t].peak_cumulative_pnl

\* C19 (drawdown duration with recovery): in a record with max_dd > 0 whose
\* cumulative PnL is back at or above the peak on some day from the trough
\* on, max_dd_duration_days is the index of the first such day minus the
\* index of the peak day before the trough, the trough being the first day
\* of the largest drawdown and the peak day the last day at the peak before
\* it; with max_dd = 0 the duration is 0.
C19_DurationWithRecovery ==
    \A k \in 1..Len(all_expectancy_payloads) :
        LET p == all_expectancy_payloads[k]
            days == 1..Len(daily_strategy_pnl)
        IN  /\ p.max_dd = 0 => p.max_dd_duration_days = 0
            /\ p.max_dd > 0 =>
                   \A t \in days : \A j \in days : \A r \in days :
                       IsTrough(p, t) /\ IsPeakDay(j, t) /\ IsRecoveryDay(r, t)
                           => p.max_dd_duration_days = r - j

\* A record with a drawdown that recovers, its peak held for two days before
\* the trough.
C19_Witness ==
    /\ all_expectancy_payloads # <<>>
    /\ all_expectancy_payloads[1].max_dd > 0
    /\ \E t, j, r \in 1..Len(daily_strategy_pnl) :
           /\ IsTrough(all_expectancy_payloads[1], t)
           /\ IsPeakDay(j, t)
           /\ IsRecoveryDay(r, t)
           /\ j > 1
           /\ daily_strategy_pnl[j - 1].cumulative_pnl
                  = daily_strategy_pnl[j].cumulative_pnl
           /\ all_expectancy_payloads[1].max_dd_duration_days = r - j

\* The cumulative PnL of no day from the trough t on is back at the peak.
Unrecovered(t) == \A r \in t..Len(daily_strategy_pnl) : ~IsRecoveryDay(r, t)

\* C20 (drawdown duration without recovery), as claimed: in a record with
\* max_dd > 0 whose cumulative PnL is not back at the peak by the last day,
\* max_dd_duration_days is 0.
C20_ZeroWithoutRecovery ==
    \A k \in 1..Len(all_expectancy_payloads) :
        LET p == all_expectancy_payloads[k]
        IN  p.max_dd > 0 =>
                \A t \in 1..Len(daily_strategy_pnl) :
                    IsTrough(p, t) /\ Unrecovered(t)
                        => p.max_dd_duration_days = 0

\* C20 as the source has it: in such a record max_dd_duration_days is the
\* index of the last day minus the index of the peak day before the trough,
\* the day count since the peak, which is at least 1.
C20_DaysSincePeak ==
    \A k \in 1..Len(all_expectancy_payloads) :
        LET p == all_expectancy_payloads[k]
            days == 1..Len(daily_strategy_pnl)
        IN  p.max_dd > 0 =>
                \A t \in days : \A j \in days :
                    IsTrough(p, t) /\ IsPeakDay(j, t) /\ Unrecovered(t)
                        => /\ p.max_dd_duration_days = Len(daily_strategy_pnl) - j
                           /\ p.max_dd_duration_days >= 1

\* A record whose drawdown has not recovered two or more days after the
\* peak.
C20_Witness ==
    /\ all_expectancy_payloads # <<>>
    /\ all_expectancy_payloads[1].max_dd > 0
    /\ \E t, j \in 1..Len(daily_strategy_pnl) :
           /\ IsTrough(all_expectancy_payloads[1], t)
           /\ IsPeakDay(j, t)
           /\ Unrecovered(t)
           /\ all_expectancy_payloads[1].max_dd_duration_days
                  = Len(daily_strategy_pnl) - j
           /\ all_expectancy_payloads[1].max_dd_duration_days >= 2

(***************************************************************************)
(* downsample_series on series of every length                             *)
(***************************************************************************)
\* Longest series handed to downsample_series by InitSpark.
MaxSeries == 400

\* Every program but the downsampling is left alone.
SparkFrozen ==
    UNCHANGED <<dbVars, variant, pc, date_list, replayVars, w2, join,
                daily_strategy_pnl, expectancy, all_expectancy_payloads, run>>

\* spark_data = downsample_series(cum_series / eff_cap_series, 25)
Downsample ==
    /\ step = "downsample"
    /\ spark' = [spark EXCEPT !.spark_data = downsample_series(spark.series, SparkPoints)]
    /\ step' = "downsampled"
    /\ SparkFrozen

NextSpark == Downsample

\* The series of a history of n days, the point of day i standing as i.
InitSpark ==
    /\ ProcessorIdle
    /\ variant = "closing"
    /\ w2 = Idle
    /\ join = Idle
    /\ daily_strategy_pnl = <<>>
    /\ expectancy = <<>>
    /\ all_expectancy_payloads = <<>>
    /\ \E n \in 0..MaxSeries :
           spark = [series |-> [i \in 1..n |-> i], spark_data |-> <<>>]
    /\ run = Idle
    /\ step = "downsample"

SpecSpark == InitSpark /\ [][NextSpark]_vars

\* C21 (sparkline downsampling): a series of n days gives min(n, 25) points;
\* with n > 25 they are the days of 0-based index floor(k * (n - 1) / 24),
\* k = 0..24, in non-decreasing order, the first and the last day among
\* them; with n <= 25 they are all the days in order.
C21_Downsampling ==
    step = "downsampled" =>
        LET n == Len(spark.series)
            out == spark.spark_data
        IN  /\ Len(out) = IF n < SparkPoints THEN n ELSE SparkPoints
            /\ n <= SparkPoints => out = spark.series
            /\ n > SparkPoints =>
                   /\ \A k \in 0..(SparkPoints - 1) :
                          out[k + 1] = (k * (n - 1)) \div (SparkPoints - 1) + 1
                   /\ \A k \in 1..(SparkPoints - 1) : out[k] <= out[k + 1]
                   /\ out[1] = 1
                   /\ out[SparkPoints] = n

\* A series longer than 25 days has a point one day before the day of index
\* floor(k * (n - 1) / 24).
C21_PointOneDayEarly ==
    /\ step = "downsampled"
    /\ Len(spark.series) > SparkPoints
    /\ \E k \in 0..(SparkPoints - 1) :
           spark.spark_data[k + 1]
               = (k * (Len(spark.series) - 1)) \div (SparkPoints - 1)

\* What the downsampling does give: min(n, 25) points in non-decreasing day
\* order, the first and the last day among them, each the day of index
\* floor(k * (n - 1) / 24) or the day before it.
DownsamplingWithinOneDay ==
    step = "downsampled" =>
        LET n == Len(spark.series)
            out == spark.spark_data
        IN  /\ Len(out) = IF n < SparkPoints THEN n ELSE SparkPoints
            /\ n <= SparkPoints => out = spark.series
            /\ n > SparkPoints =>
                   /\ \A k \in 0..(SparkPoints - 1) :
                          LET i == (k * (n - 1)) \div (SparkPoints - 1) + 1
                          IN  out[k + 1] \in {i - 1, i}
                   /\ \A k \in 1..(SparkPoints - 1) : out[k] <= out[k + 1]
                   /\ out[1] = 1
                   /\ out[SparkPoints] = n

(***************************************************************************)
(* The summarizer run twice over the same history                          *)
(***************************************************************************)
\* run_expectancy_calc() is started again after a run has ended.
StartAgain ==
    /\ step = "done"
    /\ step' = "summarize_again"
    /\ UNCHANGED <<daily_strategy_pnl, expectancy, all_expectancy_payloads>>
    /\ SummFrozen
ComputeStatsAgain == ComputeStatsAt("summarize_again", "upsert_again")
UpsertExpectancyAgain == UpsertExpectancyAt("upsert_again", "done_again")

NextTwice ==
    \/ PnlRefresh
    \/ ComputeStats
    \/ UpsertExpectancy
    \/ StartAgain
    \/ ComputeStatsAgain
    \/ UpsertExpectancyAgain

SpecTwice == InitSumm /\ [][NextTwice]_vars

\* C22 (idempotent summarization): after two runs over the same history
\* the table holds exactly one record of a strategy that has day rows, the
\* record the second run computes equals the one the first run wrote and
\* replaces it, and a strategy without day rows has no record.
C22_Idempotent ==
    /\ daily_strategy_pnl = <<>> => expectancy = <<>>
    /\ step \in {"upsert_again", "done_again"} /\ expectancy # <<>>
           => expectancy = all_expectancy_payloads
    /\ step = "done_again"
           => Len(expectancy) = IF daily_strategy_pnl = <<>> THEN 0 ELSE 1

\* Two runs have ended and the strategy, which has day rows, has no record.
C22_NoRecordAfterTwoRuns ==
    /\ step = "done_again"
    /\ daily_strategy_pnl # <<>>
    /\ expectancy = <<>>

\* What the two runs do give: never more than one record, the second run
\* replacing a record by an equal one, none for a strategy without day
\* rows, and exactly one when no float of the record is infinite or
\* undefined.
IdempotentWhenFinite ==
    /\ Len(expectancy) <= 1
    /\ daily_strategy_pnl = <<>> => expectancy = <<>>
    /\ step \in {"upsert_again", "done_again"} /\ expectancy # <<>>
           => expectancy = all_expectancy_payloads
    /\ step = "done_again" /\ daily_strategy_pnl # <<>>
           /\ PayloadSerializable(all_expectancy_payloads[1])
         => Len(expectancy) = 1

(***************************************************************************)
(* A run of one of the programs with a store call that fails               *)
(***************************************************************************)
Programs == {"closing", "ohlc", "refresh", "summarizer"}
IsProcessor(prog) == prog \in {"closing", "ohlc"}

\* The calls to the stores a run issues, in order; "compute" stands for the
\* work between the fetches and the upsert.
StoreCalls(prog) ==
    IF IsProcessor(prog)
    THEN <<"fetch_records", "check", "select_rows", "fetch_ohlc", "compute",
           "upsert", "update_status">>
    ELSE IF prog = "refresh"
    THEN <<"fetch_sources", "fetch_existing", "compute", "upsert">>
    ELSE <<"fetch", "compute", "upsert">>
FailingCalls(prog) ==
    {StoreCalls(prog)[i] : i \in 1..Len(StoreCalls(prog))} \ {"compute"}

\* The program runs by itself.
FailFrozen ==
    UNCHANGED <<dbVars, variant, pc, date_list, replayVars, w2, join,
                daily_strategy_pnl, expectancy, all_expectancy_payloads, spark,
                step>>

\* The first report on the status channel, and what the entry of a
\* processor does before any call to a store.
BeginRun ==
    /\ run # Idle /\ run.pc = "start"
    /\ run' = [run EXCEPT
           !.status = "running",
           !.pc = IF IsProcessor(run.prog)
                     /\ (\/ MainCalls(run.prog) \notin ModuleFunctions(run.prog)
                         \/ "raw_audit_data" \notin BoundAtFirstLog(run.prog))
                  THEN "raised" ELSE "call"]
    /\ FailFrozen

\* A call to a store. One that fails raises; the refresh swallows the
\* failure of its read of daily_strategy_pnl (bare except, df_ui_existing
\* stays unbound), the summarizer catches the failure of its upsert,
\* reports it and goes on to return.
IssueCall ==
    /\ run # Idle /\ run.pc = "call"
    /\ run.todo # <<>> /\ Head(run.todo) # "compute"
    /\ LET c == Head(run.todo)
       IN  run' =
               IF c # run.fail
               THEN [run EXCEPT !.todo = Tail(run.todo)]
               ELSE IF run.prog = "refresh" /\ c = "fetch_existing"
               THEN [run EXCEPT !.todo = Tail(run.todo), !.failed = TRUE,
                                !.unbound = {"df_ui_existing"}]
               ELSE IF run.prog = "summarizer" /\ c = "upsert"
               THEN [run EXCEPT !.failed = TRUE, !.status = "error",
                                !.pc = "return"]
               ELSE [run EXCEPT !.failed = TRUE, !.pc = "raised"]
    /\ FailFrozen

\* Between the fetches and the upsert. With nothing to write the refresh
\* reports success and returns, the summarizer returns; with rows to write
\* the refresh concatenates df_ui_existing, a NameError when it is unbound.
ComputeRun ==
    /\ run # Idle /\ run.pc = "call"
    /\ run.todo # <<>> /\ Head(run.todo) = "compute"
    /\ run' =
           IF ~run.has_rows /\ ~IsProcessor(run.prog)
           THEN [run EXCEPT !.pc = "return",
                            !.status = IF run.prog = "refresh" THEN "success"
                                       ELSE run.status]
           ELSE IF run.unbound # {}
           THEN [run EXCEPT !.pc = "raised"]
           ELSE [run EXCEPT !.todo = Tail(run.todo)]
    /\ FailFrozen

\* Every call has succeeded: success is reported and the function returns.
FinishRun ==
    /\ run # Idle /\ run.pc = "call"
    /\ run.todo = <<>>
    /\ run' = [run EXCEPT !.status = "success", !.pc = "return"]
    /\ FailFrozen

\* The function has returned: the process ends with code 0.
ReturnFromRun ==
    /\ run # Idle /\ run.pc = "return"
    /\ run' = [run EXCEPT !.pc = "exited", !.exit_code = <<0>>]
    /\ FailFrozen

\* An exception has left the function. The processors report the error and
\* exit(1), the refresh reports it and raises it again, the summarizer has
\* no handler: the interpreter ends with code 1 and nothing is reported.
HandleRunError ==
    /\ run # Idle /\ run.pc = "raised"
    /\ run' = [run EXCEPT
           !.pc = "exited",
           !.exit_code = <<1>>,
           !.status = IF run.prog = "summarizer" THEN run.status ELSE "error"]
    /\ FailFrozen

NextFail ==
    \/ BeginRun
    \/ IssueCall
    \/ ComputeRun
    \/ FinishRun
    \/ ReturnFromRun
    \/ HandleRunError

\* A program is started; one of its calls to a store, or none, will fail;
\* it has rows to write or it has not.
InitFail ==
    /\ ProcessorIdle
    /\ variant = "closing"
    /\ w2 = Idle
    /\ join = Idle
    /\ daily_strategy_pnl = <<>>
    /\ expectancy = <<>>
    /\ all_expectancy_payloads = <<>>
    /\ spark = Idle
    /\ step = "idle"
    /\ \E prog \in Programs : \E f \in FailingCalls(prog) \cup {"none"} :
       \E rows \in BOOLEAN :
           run = [prog |-> prog, fail |-> f, has_rows |-> rows,
                  todo |-> StoreCalls(prog), pc |-> "start", status |-> "idle",
                  exit_code |-> None, failed |-> FALSE, unbound |-> {}]

SpecFail == InitFail /\ [][NextFail]_vars

\* C24 (collaborator failure): a run in which a call to a store has failed
\* stops there (it issues no further call), and ends with the error status
\* on the status channel and a non-zero exit code.
C24_FailureIsFatal ==
    /\ run # Idle /\ run.failed => run.pc # "call"
    /\ run # Idle /\ run.failed /\ run.pc = "exited"
           => run.status = "error" /\ run.exit_code # <<0>>

\* A run in which a call to a store has failed has ended with code 0, or
\* without the error status.
C24_FailureNotSurfaced ==
    /\ run # Idle /\ run.failed /\ run.pc = "exited"
    /\ run.exit_code = <<0>> \/ run.status # "error"

\* What the programs do give: a failed call of the refresh other than the
\* read of daily_strategy_pnl is reported and ends the run with a non-zero
\* code, and no program issues a call again after its failure.
FailureFatalInRefresh ==
    /\ run # Idle /\ run.failed /\ run.pc = "exited" /\ run.prog = "refresh"
           /\ run.fail # "fetch_existing"
         => run.status = "error" /\ run.exit_code = <<1>>
    /\ run # Idle /\ run.failed /\ run.pc = "call"
         => run.prog = "refresh" /\ run.fail = "fetch_existing"

(***************************************************************************)
(* A unit with a trade row that cannot be parsed                           *)
(***************************************************************************)
\* A row whose price text is not a number: float(txn['price']) raises
\* ValueError. The model keeps the mark, not the text.
MalformedRow(inst, type, qty, dt) ==
    [broker_symbol |-> inst, txn_type |-> type, quantity |-> qty, price |-> 0,
     dt_obj |-> dt, ohlc_status |-> "verified_ohlc_present", status |-> "pending",
     unparsable |-> "price"]
Unparsable(row) == "unparsable" \in DOMAIN row

\* One iteration of the loop over the minute's trades, on a row that parses.
ApplyParsedTrade ==
    /\ pc = "txns"
    /\ minute_txns # <<>>
    /\ ~Unparsable(Head(minute_txns))
    /\ ApplyTrade

\* The same iteration on a row that does not: the exception leaves the
\* loops and the function, no try encloses the body of the unit.
RaiseOnTrade ==
    /\ pc = "txns"
    /\ minute_txns # <<>>
    /\ Unparsable(Head(minute_txns))
    /\ pc' = "raised"
    /\ UNCHANGED date_list
    /\ RunFrozen

NextMalformed ==
    \/ CheckExisting
    \/ SyncStatus
    \/ FetchTrades
    \/ FetchOhlc
    \/ SkipInvalid
    \/ ApplyParsedTrade
    \/ RaiseOnTrade
    \/ MarkMinute
    \/ Upsert
    \/ MarkCompleted
    \/ HandleError

\* Both units pending with bars cached; the rows of one of them parse (it
\* may have a record from an earlier run), the other has a row that does
\* not, alone or after a row that does.
GoodLedgers ==
    {<<Row("A", t, 1, 10, d)>> :
        t \in {"B", "S"}, d \in {Clock(15, 28, 0), Clock(15, 29, 30), Clock(15, 31, 0)}}
MalformedLedgers ==
    {<<MalformedRow("A", t, 1, Clock(15, 29, 30))>> : t \in {"B", "S"}}
        \cup {<<Row("A", t1, 1, 10, Clock(15, 28, 0)),
                MalformedRow("A", t2, 1, Clock(15, 29, 30))>> :
                 t1 \in {"B", "S"}, t2 \in {"B", "S"}}
MalformedUnit == CHOOSE u \in Units : \E i \in 1..Len(verification[u]) :
                                          Unparsable(verification[u][i])

InitMalformed ==
    \E v \in Variants : \E bad \in Units :
    \E lb \in MalformedLedgers : \E lg \in GoodLedgers :
    \E old \in {None, OldRecord(v)} :
        /\ variant = v
        /\ verification = [u \in Units |-> IF u = bad THEN lb ELSE lg]
        /\ pnl_table = [u \in Units |-> IF u = bad THEN None ELSE old]
        /\ market_ohlc_cache = [u \in Units |-> Candles("A", "bars")]
        /\ date_list = PendingUnits(verification)
        /\ pc = "check"
        /\ df_all = <<>>
        /\ ohlc_lookup = <<>>
        /\ inventory = <<>>
        /\ realized_pnl_bucket = R(0)
        /\ pnl_series = <<>>
        /\ current_time = 0
        /\ minute_txns = <<>>
        /\ applied = <<>>
        /\ AuxIdle

SpecMalformed == InitMalformed /\ [][NextMalformed]_vars

\* The unit u comes before the unit w in the order of the loop.
Before(u, w) ==
    \E i, j \in 1..Len(UnitOrder) : UnitOrder[i] = u /\ UnitOrder[j] = w /\ i < j
\* The loop has dealt with the unit: no row of it is pending, and it has a
\* record if its first trade is at or before 15:30.
Processed(u) ==
    /\ \A i \in 1..Len(verification[u]) : verification[u][i].status # "pending"
    /\ ReplayableUnit(u) => pnl_table[u] # None

\* C23 (malformed per-day input): the run of a processor over a batch with
\* one unit whose rows cannot be parsed does not abort, and when it is over
\* every other unit has been processed and persisted.
C23_OnlyThatDaySkipped ==
    /\ pc # "aborted"
    /\ RunOver => \A u \in Units \ {MalformedUnit} : Processed(u)

\* The run has exited on the error path and a unit whose rows all parse is
\* still pending.
C23_GoodUnitLeftPending ==
    /\ pc = "aborted"
    /\ \E u \in Units \ {MalformedUnit} : AllRows(verification, u, "pending")

\* What the processor does give: the units before the malformed one are
\* processed, the malformed one and those after it are left as they were.
MalformedUnitEndsRun ==
    RunOver =>
        /\ pc = "aborted"
        /\ \A u \in Units :
               IF Before(u, MalformedUnit)
               THEN Processed(u)
               ELSE AllRows(verification, u, "pending")

(***************************************************************************)
(* Conservation of the position and of the cash                            *)
(***************************************************************************)
\* +quantity for a BUY row, -quantity for a SELL row.
SignedQty(row) == IF row.txn_type = "B" THEN TQty(row) ELSE -TQty(row)

\* Sum of the BUY quantities minus sum of the SELL quantities of the rows of
\* one instrument.
RECURSIVE NetQty(_, _)
NetQty(rows, inst) ==
    IF rows = <<>> THEN 0
    ELSE (IF Head(rows).broker_symbol = inst THEN SignedQty(Head(rows)) ELSE 0)
         + NetQty(Tail(rows), inst)

\* The signed position the inventory holds for an instrument.
SignedPosition(inv, inst) ==
    IF inst \notin DOMAIN inv THEN 0
    ELSE IF inv[inst].side = "LONG" THEN inv[inst].qty ELSE -inv[inst].qty

\* C25 (position conservation): at every point of the replay every
\* instrument's quantity is >= 0 and its signed position (+quantity LONG,
\* -quantity SHORT, 0 when flat) is the sum of the BUY quantities minus the
\* sum of the SELL quantities of the trades applied so far.
C25_PositionConservation ==
    /\ \A inst \in DOMAIN inventory : inventory[inst].qty >= 0
    /\ \A inst \in DOMAIN inventory \cup Instruments(applied) :
           SignedPosition(inventory, inst) = NetQty(applied, inst)

\* A LONG position sold through to SHORT, and one sold down to part of it.
C25_Witness ==
    /\ Len(applied) = 3
    /\ applied[1].txn_type = "B" /\ applied[1].quantity = 2
    /\ applied[2].txn_type = "S" /\ applied[2].quantity = 1
    /\ applied[3].txn_type = "S" /\ applied[3].quantity = 2
    /\ SignedPosition(inventory, "A") = -1

\* One instrument, every side, quantity and price, all trades in the 15:28
\* minute, a bar cached for every minute (ordinary, or with a close of 0).
\* The run starts from one of these or from a queue of two units.
OrderInputs(v) ==
    {[verification |-> [u \in Units |-> IF u = "u1" THEN l ELSE DoneRows],
      pnl_table |-> [u \in Units |-> IF u = "u1" THEN None ELSE OldRecord(v)],
      market_ohlc_cache |-> [u \in Units |-> IF u = "u1" THEN Candles("A", pa) ELSE {}]]
        : l \in Ledgers({<<"A", "B">>, <<"A", "S">>}, 1..MaxQty, {10, 12},
                        {Clock(15, 28, 0)}),
          pa \in {"bars", "zero"}}

InitOrder ==
    \E v \in Variants : \E in \in OrderInputs(v) \cup QueueInputs(v) :
        /\ variant = v
        /\ verification = in.verification
        /\ pnl_table = in.pnl_table
        /\ market_ohlc_cache = in.market_ohlc_cache
        /\ date_list = PendingUnits(in.verification)
        /\ pc = "check"
        /\ df_all = <<>>
        /\ ohlc_lookup = <<>>
        /\ inventory = <<>>
        /\ realized_pnl_bucket = R(0)
        /\ pnl_series = <<>>
        /\ current_time = 0
        /\ minute_txns = <<>>
        /\ applied = <<>>
        /\ AuxIdle

SpecOrder == InitOrder /\ [][Next]_vars

\* Sum of SELL price * quantity minus sum of BUY price * quantity.
RECURSIVE Cash(_)
Cash(rows) ==
    IF rows = <<>> THEN 0
    ELSE -SignedQty(Head(rows)) * Head(rows).price + Cash(Tail(rows))

\* sign * (p - average_price) * quantity of the position held in inst.
MarkToMarket(inv, inst, p) ==
    IF inst \notin DOMAIN inv THEN R(0)
    ELSE RMul(RMul(RSub(R(p), inv[inst].avg_price), R(inv[inst].qty)),
              R(PnlMult(inv[inst].side)))

\* The mark prices the identity is checked at.
MarkPrices == {0, 9, 11, 13}

\* The identity: realized PnL plus the mark-to-market at p is the cash of
\* the applied trades plus the net position at p.
AccountingIdentity ==
    \A p \in MarkPrices :
        RAdd(realized_pnl_bucket, MarkToMarket(inventory, "A", p))
            = R(Cash(applied) + NetQty(applied, "A") * p)

\* The minute's trades are applied, its point is about to be emitted, and a
\* bar of the minute is cached for the instrument.
MinuteWithBar ==
    /\ pc = "txns" /\ minute_txns = <<>>
    /\ <<"A", LookupTs(current_time)>> \in DOMAIN ohlc_lookup

\* The total PnL of a point: pnl, or the close-based value.
TotalPnl(v, point) == IF v = "closing" THEN point.pnl ELSE point.c

\* The total PnL the minute would get had its trades been applied in another
\* order.
TotalInOrder(other) ==
    LET st == ApplyTxns(EmptyBook, other)
    IN  TotalPnl(variant, MinutePoint(variant, st.realized, st.inventory,
                                      ohlc_lookup, current_time))

OrderIndependent ==
    \A other \in TieOrders(applied) :
        TotalInOrder(other)
            = TotalPnl(variant, MinutePoint(variant, realized_pnl_bucket, inventory,
                                            ohlc_lookup, current_time))

\* C26 (accounting identity): after any sequence of trades on one
\* instrument, realized PnL plus the mark-to-market of the position at any
\* price p equals SELL cash minus BUY cash plus the net position times p,
\* and the total PnL of a minute with a cached bar is the same for every
\* order of that minute's trades.
C26_AccountingIdentity ==
    /\ AccountingIdentity
    /\ MinuteWithBar => OrderIndependent

\* A minute with a cached bar whose total PnL another order of its trades
\* would change.
C26_OrderChangesTotal == MinuteWithBar /\ ~OrderIndependent

\* What holds: the identity at every point of the replay, and the order
\* independence in the banded processor and, for a bar whose close is not 0,
\* in the closing processor.
IdentityAndOrderNonZeroClose ==
    /\ AccountingIdentity
    /\ (MinuteWithBar
            /\ (variant = "ohlc" \/ ohlc_lookup[<<"A", LookupTs(current_time)>>] # 0))
         => OrderIndependent

(***************************************************************************)
(* The two processors on the same trades and bars                          *)
(***************************************************************************)
OtherVariant == IF variant = "closing" THEN "ohlc" ELSE "closing"

\* The series the other processor builds for the unit from the same rows
\* and the same cache.
OtherSeries ==
    ReplaySeries(OtherVariant, df_all,
                 BuildLookup(OtherVariant,
                             FetchOhlcRows(market_ohlc_cache, Unit,
                                           Instruments(df_all))))

SameLabels(a, b) ==
    /\ Len(a) = Len(b)
    /\ \A k \in 1..Len(a) : a[k].time = b[k].time

SameCloseValues(closing, banded) ==
    \A k \in 1..Len(closing) :
        k <= Len(banded) => closing[k].pnl = StrValue(banded[k].c)

SeriesAgree ==
    IF variant = "closing" THEN SameCloseValues(pnl_series, OtherSeries)
    ELSE SameCloseValues(OtherSeries, pnl_series)

\* C27 (variant agreement): on the same trades and the same cached bars the
\* two processors emit the same number of points with the same time labels,
\* and at every minute the banded close-based value is the closing pnl.
C27_VariantAgreement ==
    LoopOver => SameLabels(pnl_series, OtherSeries) /\ SeriesAgree

\* A series of one processor that the other's differs from.
C27_VariantsDiffer == LoopOver /\ ~SeriesAgree

\* A bar of the unit is cached with a close of 0.
ZeroCloseCached == \E r \in market_ohlc_cache[Unit] : r.close = 0

\* What holds: the labels agree on every input, the values agree unless a
\* bar is cached with a close of 0.
VariantsAgreeNonZeroClose ==
    LoopOver => /\ SameLabels(pnl_series, OtherSeries)
                /\ ~ZeroCloseCached => SeriesAgree

(***************************************************************************)
(* Ordering of the three banded values                                     *)
(***************************************************************************)
\* Every cached bar of the unit has low <= close <= high.
BarsOrdered ==
    \A r \in market_ohlc_cache[Unit] : r.low <= r.close /\ r.close <= r.high

\* C28 (band ordering): with every cached bar low <= close <= high, every
\* emitted minute of the banded processor has low-based <= close-based <=
\* high-based, whatever the mix of LONG and SHORT positions and of missing
\* bars; at a minute where every instrument is flat or has no bar the three
\* values are the cumulative realized PnL.
C28_BandOrdering ==
    (InReplay /\ variant = "ohlc" /\ BarsOrdered)
        => \A k \in 1..Len(pnl_series) :
               /\ StrValue(pnl_series[k].l) <= StrValue(pnl_series[k].c)
               /\ StrValue(pnl_series[k].c) <= StrValue(pnl_series[k].h)
               /\ MarkedIn(MinuteOf(k)) = {}
                    => LET x == StrRound2(BookAt(MinuteOf(k)).realized)
                       IN  /\ pnl_series[k].c = x
                           /\ pnl_series[k].h = x
                           /\ pnl_series[k].l = x

\* A SHORT A and a LONG B, both 1 @ 10 against bars 9 / 11 / 13: the point
\* reads low-based -4.00 < close-based 0.00 < high-based 4.00.
C28_Witness ==
    /\ pc = "upsert" /\ variant = "ohlc" /\ BarsOrdered
    /\ \E k \in 1..Len(pnl_series) :
           /\ {i \in OpenIn(BookAt(MinuteOf(k))) :
                  BookAt(MinuteOf(k)).inventory[i].side = "SHORT"} = {"A"}
           /\ {i \in OpenIn(BookAt(MinuteOf(k))) :
                  BookAt(MinuteOf(k)).inventory[i].side = "LONG"} = {"B"}
           /\ StrValue(pnl_series[k].l) = -400
           /\ StrValue(pnl_series[k].c) = 0
           /\ StrValue(pnl_series[k].h) = 400

(***************************************************************************)
(* Every trade of a completed unit is applied                              *)
(***************************************************************************)
\* The rows are in non-decreasing timestamp order.
TimeOrdered(rows) ==
    \A k \in 1..(Len(rows) - 1) : rows[k].dt_obj <= rows[k + 1].dt_obj

\* The replay of the unit has persisted its series and is about to mark the
\* unit completed.
AboutToComplete == pc = "mark_completed"

\* C29 (no trade dropped): when a replay marks a unit completed, every trade
\* row of the unit has been applied to the inventory exactly once, in
\* non-decreasing timestamp order, a row stamped 15:31:00 or later on a day
\* that starts at or before 15:30 included.
C29_NoTradeDropped ==
    AboutToComplete
        => /\ applied = SortValues(verification[Unit])
           /\ TimeOrdered(applied)

\* A unit about to be marked completed with a row stamped 15:31:00 that was
\* never applied.
C29_LateTradeDropped ==
    /\ AboutToComplete
    /\ \E i \in 1..Len(df_all) : df_all[i].dt_obj >= MarketClose + 60
    /\ \A i \in 1..Len(applied) : applied[i].dt_obj < MarketClose + 60

\* What holds: the rows stamped before 15:31:00 are applied exactly once, in
\* the order of the sorted ledger, and no other row is.
TradesUpToCloseApplied ==
    AboutToComplete
        => /\ applied = SelectSeq(SortValues(verification[Unit]),
                                  LAMBDA r : r.dt_obj < MarketClose + 60)
           /\ TimeOrdered(applied)

(***************************************************************************)
(* A unit with rows the OHLC fetcher has marked skipped_no_ohlc            *)
(***************************************************************************)
\* A row of a (date, symbol, strategy) group for which the fetcher found
\* fewer than 300 candles.
SkippedRow(inst, type, qty, price, dt) ==
    [Row(inst, type, qty, price, dt) EXCEPT
        !.ohlc_status = "missing_ohlc_at_vault", !.status = "skipped_no_ohlc"]

\* The row is one the queue query selects on: usable OHLC data.
HasOhlc(row) == row.ohlc_status \in {"verified_ohlc_present", "partial_ohlc_data"}

\* Ledgers of 1..MaxTrades rows: trades of A, pending with bars, and of B,
\* skipped without bars, at least one of A.
FrameLedgers ==
    LET rows == {Row("A", t, 1, 10, d) :
                    t \in {"B", "S"}, d \in {Clock(15, 29, 30), Clock(15, 31, 0)}}
                \cup {SkippedRow("B", "B", 1, 10, d) :
                         d \in {Clock(15, 28, 0), Clock(15, 29, 30), Clock(15, 31, 0)}}
    IN  UNION {{l \in [1..n -> rows] :
                   /\ \A k \in 1..(n - 1) : l[k].dt_obj <= l[k + 1].dt_obj
                   /\ \E k \in 1..n : HasOhlc(l[k])}
               : n \in 1..MaxTrades}

\* The unit u1 holds such a ledger, with or without a record of an earlier
\* run; the unit u2 holds skipped rows only, or one pending trade.
FrameInputs(v) ==
    {[verification |-> [u \in Units |-> IF u = "u1" THEN l ELSE l2],
      pnl_table |-> [u \in Units |-> IF u = "u1" THEN r1 ELSE None],
      market_ohlc_cache |-> [u \in Units |-> Candles("A", "bars")]]
        : l \in FrameLedgers, r1 \in {None, OldRecord(v)},
          l2 \in {<<SkippedRow("B", "B", 1, 10, Clock(15, 28, 0))>>,
                  <<Row("A", "B", 1, 10, Clock(15, 28, 0))>>}}

InitFrame ==
    \E v \in Variants : \E in \in FrameInputs(v) :
        /\ variant = v
        /\ verification = in.verification
        /\ pnl_table = in.pnl_table
        /\ market_ohlc_cache = in.market_ohlc_cache
        /\ date_list = PendingUnits(in.verification)
        /\ pc = "check"
        /\ df_all = <<>>
        /\ ohlc_lookup = <<>>
        /\ inventory = <<>>
        /\ realized_pnl_bucket = R(0)
        /\ pnl_series = <<>>
        /\ current_time = 0
        /\ minute_txns = <<>>
        /\ applied = <<>>
        /\ AuxIdle

SpecFrame == InitFrame /\ [][Next]_vars

\* C30 (status frame): only rows that were pending with verified or partial
\* OHLC data are replayed, and only their status is changed: a row set to
\* skipped_no_ohlc by the fetcher is never applied and keeps that status.
C30_StatusFrame ==
    /\ \A i \in 1..Len(applied) : HasOhlc(applied[i])
    /\ \A u \in Units : \A i \in 1..Len(verification[u]) :
           ~HasOhlc(verification[u][i])
              => verification[u][i].status = "skipped_no_ohlc"

\* A row without OHLC data has been applied to the inventory.
C30_SkippedRowReplayed ==
    \E i \in 1..Len(applied) : ~HasOhlc(applied[i])

\* The status of a row without OHLC data has been overwritten.
C30_SkippedRowOverwritten ==
    \E u \in Units : \E i \in 1..Len(verification[u]) :
        /\ ~HasOhlc(verification[u][i])
        /\ verification[u][i].status \in {"completed", "skipped_invalid_time"}

\* What holds: a unit with no queued row is left alone, the replay applies
\* rows of the unit it works on only, and the status is the only field of a
\* row that changes (all rows of a unit carry the same status once it is
\* written).
UnqueuedUnitsUntouched ==
    /\ \A u \in Units : \A i \in 1..Len(verification[u]) :
           (\A k \in 1..Len(verification[u]) : ~HasOhlc(verification[u][k]))
              => verification[u][i].status = "skipped_no_ohlc"
    /\ pc \in {"txns", "upsert", "mark_completed"}
          => \A i \in 1..Len(applied) :
                 \E k \in 1..Len(verification[Unit]) :
                     applied[i] = verification[Unit][k]
    /\ \A u \in Units : \A i \in 1..Len(verification[u]) :
           \/ verification[u][i].status \in {"pending", "skipped_no_ohlc"}
           \/ \A k \in 1..Len(verification[u]) :
                  verification[u][k].status = verification[u][i].status
====
